---- MODULE Spec2Model ----
(***************************************************************************)
(* Flood susceptibility and escape routing: a model of the four            *)
(* algorithmic modules (src/ahp.py, src/hydrology.py, src/flood_model.py,  *)
(* src/road_network.py + src/evacuation.py) and of the pipeline steps of   *)
(* app.py / main.py that connect them.                                     *)
(*                                                                         *)
(* Numbers.  The code computes in IEEE doubles.  The model computes in     *)
(* exact integer arithmetic on scaled values:                              *)
(*   - pairwise-matrix entries are rationals <<num, den>>;                 *)
(*   - AHP weights are integers in units of 1e-4 (the code rounds them to  *)
(*     4 decimals); lambda ratios are six-digit decimal quotients with the *)
(*     remainder kept, so a comparison is decided only when the digits     *)
(*     decide it;                                                          *)
(*   - flood_risk is an integer number of hundredths, an edge length an    *)
(*     integer number of tenths of the coordinate unit.                    *)
(***************************************************************************)
EXTENDS Integers, Sequences, FiniteSets, TLC

VARIABLES
    \* ---- src/ahp.py
    PAIRWISE_MATRIX,   \* the module-level comparison matrix (rationals)
    ahp,               \* last result of compute_ahp_weights, or NoResult
    validated,         \* outcome of get_validated_weights
    \* ---- src/flood_model.py
    rainfall_mm,       \* the scenario's rainfall
    rain_max,          \* rain_max argument of apply_rainfall_multiplier
    base_risk,         \* BaseRisk raster: cell -> value in 1/BaseDen
    water_mask,        \* water mask raster: cell -> 0 / 1
    rain_factor,       \* RainFactor of the scenario
    fsi,               \* result of apply_rainfall_multiplier
    flood_risk,        \* result of apply_water_mask
    \* ---- src/hydrology.py, compute_flow_accumulation
    dem_shape,         \* <<rows, cols>> of the DEM
    dem_array,         \* elevation by flat (row-major) cell index
    flow_dir,          \* D8 direction index by cell, -1 = none
    flow_accum,        \* accumulation by cell
    processed,         \* cells the accumulation pass has processed
    flow_pc,           \* "start", "accumulate", "done"
    \* ---- src/road_network.py, src/evacuation.py, app.py phase 6
    osm_graph,         \* the road network OSM serves for the area
    risk_tif,          \* FSI the risk raster holds at edge midpoints and nodes
    graphs,            \* heap of graph objects; a graph variable holds an index
    _cached_graph,      \* road_network._cached_graph (0 = None)
    road_graph,        \* _run_pipeline's road_graph (0 = unbound)
    road_graph_safe,   \* _run_pipeline's road_graph_safe (0 = unbound)
    start_node,        \* ox.nearest_nodes(G, start_lon, start_lat)
    open_set,          \* A* heap: set of <<f, g, node>>
    g_scores,          \* dict node -> best known g
    came_from,         \* dict node -> predecessor
    visited,           \* closed set
    route,             \* result of find_escape_route, or NoResult
    road_pc,           \* position in phase 6
    \* ---- app.py job store and pipeline threads, main.py
    jobs,              \* app.jobs: job_id -> {status, progress, result, error}
    job_pc,            \* position of each job's _run_pipeline thread
    job_locals,        \* locals of each _run_pipeline call
    cli_pc,            \* position of a `python main.py` run
    cli_out,           \* what the CLI run has produced
    status_job,        \* job_status: the job whose dictionary the handler holds, or None
    status_response,   \* job_status: the last response body
    \* ---- hydrology.py / preprocessing.py raster functions
    hydro_fn,          \* the function that is called
    hydro_in,          \* its input
    hydro_out,         \* its result, or NoResult
    \* ---- flood_model.classify_risk, decision_support.compute_risk_statistics
    fsi_band,          \* FSI raster band: cell -> value in hundredths
    risk_classified,   \* result of classify_risk, or NoResult
    risk_stats,        \* result of compute_risk_statistics, or NoResult
    risk_adaptive,     \* result of classify_risk_adaptive, or NoResult
    \* ---- src/road_network.py: sample_risk_on_edges, label_safe_nodes as functions
    sample_G,          \* the graph G of the call
    sample_tif,        \* the raster at risk_tif_path: shape and band
    n_workers,         \* n_workers, a number once the default is resolved
    chunks,            \* the key sets of the chunks
    futures,           \* state of each submitted task
    all_results,       \* the merged results
    label_threshold,   \* safe_threshold of label_safe_nodes
    sample_pc,         \* position in the calls
    \* ---- src/road_network.py: load_road_network and its cache
    _cached_key,       \* road_network._cached_key
    fetched,           \* keys of the successful fetches, in order
    load_call,         \* locals of each thread's load_road_network call
    load_ret,          \* outcome of each thread's last call
    calls_made,        \* number of calls so far
    \* ---- app.py: the raster file and the road graph two pipeline threads share
    files,             \* path -> the job whose raster the file holds
    road_cache,        \* (_cached_key, _cached_graph) of road_network
    graph_objects,     \* graph objects: area, and whose risk the edges carry
    run_pc,            \* the statement each pipeline thread is at
    run_locals         \* locals of each pipeline thread

ahpVars == <<PAIRWISE_MATRIX, ahp, validated>>
rainVars == <<rainfall_mm, rain_max, base_risk, water_mask, rain_factor, fsi, flood_risk>>

flowVars == <<dem_shape, dem_array, flow_dir, flow_accum, processed, flow_pc>>

roadVars == <<osm_graph, risk_tif, graphs, _cached_graph, road_graph, road_graph_safe,
              start_node, open_set, g_scores, came_from, visited, route, road_pc>>

jobVars == <<jobs, job_pc, job_locals, cli_pc, cli_out, status_job, status_response>>

hydroVars == <<hydro_fn, hydro_in, hydro_out>>

classVars == <<fsi_band, risk_classified, risk_stats, risk_adaptive>>

sampleVars == <<sample_G, sample_tif, n_workers, chunks, futures, all_results, label_threshold, sample_pc>>

cacheVars == <<_cached_key, fetched, load_call, load_ret, calls_made>>

shareVars == <<files, road_cache, graph_objects, run_pc, run_locals>>

vars == <<ahpVars, rainVars, flowVars, roadVars, jobVars, hydroVars, classVars, sampleVars, cacheVars, shareVars>>

\* what the operations of one module leave alone
exceptAhp == <<rainVars, flowVars, roadVars, jobVars, hydroVars, classVars, sampleVars, cacheVars, shareVars>>
exceptRain == <<ahpVars, flowVars, roadVars, jobVars, hydroVars, classVars, sampleVars, cacheVars, shareVars>>
exceptFlow == <<ahpVars, rainVars, roadVars, jobVars, hydroVars, classVars, sampleVars, cacheVars, shareVars>>
exceptRoad == <<ahpVars, rainVars, flowVars, jobVars, hydroVars, classVars, sampleVars, cacheVars, shareVars>>
exceptJobs == <<ahpVars, rainVars, flowVars, roadVars, hydroVars, classVars, sampleVars, cacheVars, shareVars>>
exceptHydro == <<ahpVars, rainVars, flowVars, roadVars, jobVars, classVars, sampleVars, cacheVars, shareVars>>
exceptClass == <<ahpVars, rainVars, flowVars, roadVars, jobVars, hydroVars, sampleVars, cacheVars, shareVars>>
exceptSample == <<ahpVars, rainVars, flowVars, roadVars, jobVars, hydroVars, classVars, cacheVars, shareVars>>
\* the road variables other than _cached_graph
roadRest == <<osm_graph, risk_tif, graphs, road_graph, road_graph_safe,
              start_node, open_set, g_scores, came_from, visited, route, road_pc>>
exceptCache == <<ahpVars, rainVars, flowVars, jobVars, hydroVars, classVars, sampleVars, shareVars>>
exceptShare == <<ahpVars, rainVars, flowVars, roadVars, jobVars, hydroVars, classVars, sampleVars, cacheVars>>

NoResult == [kind |-> "none"]

(***************************************************************************)
(* Integer helpers                                                         *)
(***************************************************************************)
RECURSIVE GCD(_, _)
GCD(a, b) == IF b = 0 THEN a ELSE GCD(b, a % b)

LCM(a, b) == (a * b) \div GCD(a, b)

RECURSIVE SumSeq(_)
SumSeq(s) == IF s = <<>> THEN 0 ELSE Head(s) + SumSeq(Tail(s))

RECURSIVE LCMSeq(_)
LCMSeq(s) == IF s = <<>> THEN 1 ELSE LCM(Head(s), LCMSeq(Tail(s)))

RECURSIVE GCDSeq(_)
GCDSeq(s) == IF s = <<>> THEN 0 ELSE GCD(Head(s), GCDSeq(Tail(s)))

\* a / b written to `digits` decimal places by long division:
\* <<floor(a * 10^digits / b), remainder>>
RECURSIVE FixDiv(_, _, _)
FixDiv(a, b, digits) ==
    IF digits = 0 THEN <<a \div b, a % b>>
    ELSE LET p == FixDiv(a, b, digits - 1)
         IN  <<p[1] * 10 + (p[2] * 10) \div b, (p[2] * 10) % b>>

\* Python round(a / b, digits) as an integer number of 10^-digits:
\* round half to even on the exact quotient.
RoundDiv(a, b, digits) ==
    LET p == FixDiv(a, b, digits)
    IN  IF 2 * p[2] > b \/ (2 * p[2] = b /\ p[1] % 2 = 1) THEN p[1] + 1 ELSE p[1]

(***************************************************************************)
(* src/ahp.py                                                              *)
(***************************************************************************)
\* Largest Saaty intensity of the generated comparison matrices.
SaatyMax == 3

Rat(n, d) == <<n, d>>
Recip(q) == <<q[2], q[1]>>

\* RI_TABLE in hundredths; RI_TABLE.get(n, 1.49)
RI_TABLE == <<0, 0, 58, 90, 112, 124, 132, 141, 145, 149>>
RI(n) == IF n \in DOMAIN RI_TABLE THEN RI_TABLE[n] ELSE 149

\* The built-in 5x5 matrix: elevation, slope, soil, river, flow_accum.
BuiltinMatrix ==
    << <<Rat(1,1), Rat(3,1), Rat(3,1), Rat(1,2), Rat(1,1)>>,
       <<Rat(1,3), Rat(1,1), Rat(1,1), Rat(1,4), Rat(1,2)>>,
       <<Rat(1,3), Rat(1,1), Rat(1,1), Rat(1,4), Rat(1,2)>>,
       <<Rat(2,1), Rat(4,1), Rat(4,1), Rat(1,1), Rat(2,1)>>,
       <<Rat(1,1), Rat(2,1), Rat(2,1), Rat(1,2), Rat(1,1)>> >>

\* Saaty intensities 1/SaatyMax .. SaatyMax
SaatyValues == {Rat(s, 1) : s \in 1..SaatyMax} \cup {Rat(1, s) : s \in 1..SaatyMax}

\* Reciprocal matrices (a[i][j] = 1/a[j][i], diagonal 1) of order 1, 2 and 3.
ReciprocalMatrices ==
    { << <<Rat(1,1)>> >> }
    \cup { << <<Rat(1,1), a>>, <<Recip(a), Rat(1,1)>> >> : a \in SaatyValues }
    \cup { << <<Rat(1,1), a, b>>,
              <<Recip(a), Rat(1,1), c>>,
              <<Recip(b), Recip(c), Rat(1,1)>> >> :
           a \in SaatyValues, b \in SaatyValues, c \in SaatyValues }

Matrices == ReciprocalMatrices \cup {BuiltinMatrix}

\* Common denominator K of the entries, and the integer matrix K * M.
MatrixScale(M) ==
    LCMSeq([i \in 1..Len(M) |-> LCMSeq([j \in 1..Len(M) |-> M[i][j][2]])])
IntMatrix(M, K) ==
    [i \in 1..Len(M) |-> [j \in 1..Len(M) |-> M[i][j][1] * (K \div M[i][j][2])]]

\* col_sums = matrix.sum(axis=0), of the integer matrix A
col_sums(A) ==
    [j \in 1..Len(A) |-> SumSeq([i \in 1..Len(A) |-> A[i][j]])]

\* priority = (matrix / col_sums).mean(axis=1), as the exact fractions
\* num[i] / den over one common denominator, in lowest terms.
priority(A, C) ==
    LET n  == Len(A)
        L  == LCMSeq(C)
        Pr == [i \in 1..n |-> SumSeq([j \in 1..n |-> A[i][j] * (L \div C[j])])]
        g  == GCD(GCDSeq(Pr), n * L)
    IN  [num |-> [i \in 1..n |-> Pr[i] \div g], den |-> (n * L) \div g]

\* lambda_ratios = (matrix @ priority) / priority, each to six decimals:
\* <<floor(ratio * 1e6), remainder>>
lambda_ratios(A, K, P) ==
    [i \in 1..Len(A) |->
        FixDiv(SumSeq([j \in 1..Len(A) |-> A[i][j] * P[j]]), K * P[i], 6)]

\* lambda_max = lambda_ratios.mean(): n * lambda_max in 1e-6 units lies in
\* [lo, hi]; hi is attained only when every quotient was exact (lo = hi).
lambda_sum(R) ==
    LET lo == SumSeq([i \in 1..Len(R) |-> R[i][1]])
    IN  [lo |-> lo, hi |-> lo + Cardinality({i \in 1..Len(R) : R[i][2] # 0})]

Million == 1000 * 1000

\* ci = (lambda_max - n) / (n - 1) as num / den; den = 0 is the float
\* division 0.0 / 0 of numpy, whose value is NaN.
ci(n, s) ==
    [lo  |-> s.lo - n * n * Million,
     hi  |-> s.hi - n * n * Million,
     den |-> n * (n - 1) * Million]

\* cr = ci / ri if ri > 0 else 0; compared with 0.1:
\* "below", "atleast", or "undecided" when six decimals do not decide.
\* thr is 0.1 * ri * (n - 1) * n in 1e-6 units.
cr_vs_tenth(n, c) ==
    LET thr == n * (n - 1) * RI(n) * 1000
    IN  IF RI(n) = 0 THEN "below"
        ELSE IF c.hi < thr \/ (c.hi = thr /\ c.lo < c.hi) THEN "below"
        ELSE IF c.lo >= thr THEN "atleast"
        ELSE "undecided"

\* is_consistent = cr < 0.1
is_consistent(v) ==
    CASE v = "below"   -> {TRUE}
      [] v = "atleast" -> {FALSE}
      [] OTHER         -> BOOLEAN

\* weights = {name: round(float(w), 4)}, in 1e-4 units, by factor position
rounded_weights(p) ==
    [i \in 1..Len(p.num) |-> RoundDiv(p.num[i], p.den, 4)]

\* compute_ahp_weights(matrix): the results it can return
compute_ahp_weights(M) ==
    LET n == Len(M)
        K == MatrixScale(M)
        A == IntMatrix(M, K)
        p == priority(A, col_sums(A))
        c == ci(n, lambda_sum(lambda_ratios(A, K, p.num)))
        v == cr_vs_tenth(n, c)
    IN  { [kind       |-> "ahp",
           weights    |-> rounded_weights(p),
           ci_nan     |-> (c.den = 0),
           ci         |-> c,
           ri         |-> RI(n),
           cr         |-> v,
           consistent |-> ok] : ok \in is_consistent(v) }

\* total = sum(weights.values()); {k: round(v / total, 4)}
renormalise(w) ==
    LET total == SumSeq(w)
    IN  [i \in 1..Len(w) |-> RoundDiv(w[i] * 10000, total, 0)]

\* Variant: the consistency check left out.
validated_result_unchecked(r) ==
    [kind |-> "weights", weights |-> renormalise(r.weights)]

\* get_validated_weights, given what compute_ahp_weights() returned
validated_result(r) ==
    IF ~r.consistent
    THEN [kind |-> "ValueError"]
    ELSE [kind |-> "weights", weights |-> renormalise(r.weights)]

AhpIdle ==
    /\ PAIRWISE_MATRIX = BuiltinMatrix
    /\ ahp = NoResult
    /\ validated = NoResult

AhpStart ==
    /\ PAIRWISE_MATRIX \in Matrices
    /\ ahp = NoResult
    /\ validated = NoResult

\* a direct call of compute_ahp_weights() on the module's matrix
ComputeAhpWeights ==
    /\ ahp = NoResult
    /\ ahp' \in compute_ahp_weights(PAIRWISE_MATRIX)
    /\ UNCHANGED <<PAIRWISE_MATRIX, validated, exceptAhp>>

\* get_validated_weights()
GetValidatedWeights ==
    /\ validated = NoResult
    /\ \E r \in compute_ahp_weights(PAIRWISE_MATRIX) :
          /\ ahp' = r
          /\ validated' = validated_result(r)
    /\ UNCHANGED <<PAIRWISE_MATRIX, exceptAhp>>

AhpNext == ComputeAhpWeights \/ GetValidatedWeights

(***************************************************************************)
(* src/flood_model.py                                                      *)
(*                                                                         *)
(* RainFactor = ratio ^ 1.2 is irrational in general.  With the ratio      *)
(* p / q and the base risk b / BaseDen the model keeps the fifth power of  *)
(* every value, which is rational: (b/BaseDen * (p/q)^(6/5))^5 =           *)
(* b^5 p^6 / (BaseDen^5 q^6).  x -> x^5 is strictly increasing, so min,    *)
(* max and <= on values are min, max and <= on their fifth powers.         *)
(***************************************************************************)
RAIN_MAX == 150
\* RAIN_ALPHA = 1.2 = AlphaNum / AlphaDen
AlphaNum == 6
AlphaDen == 5

\* Raster cells, base-risk resolution and the rainfall scenarios.
NumCells == 2
BaseDen == 2
MaxRainSteps == 11
NegRainSteps == 1

Cells == 1..NumCells
\* rainfall in steps of a tenth of the design storm
RainStep == RAIN_MAX \div 10
RainValues == {k * RainStep : k \in (0 - NegRainSteps)..MaxRainSteps}
\* rain_max argument: 0 stands for None (both are falsy and select
\* config.RAIN_MAX), or a custom design storm
RainMaxArgs == {0, RAIN_MAX \div 2}
\* base risk from below 0 to above 1, to exercise the clamp
BaseValues == (0 - 1)..(BaseDen + 1)

RECURSIVE Pow(_, _)
Pow(x, k) == IF k = 0 THEN 1 ELSE x * Pow(x, k - 1)

Min(a, b) == IF a <= b THEN a ELSE b
Max(a, b) == IF a >= b THEN a ELSE b

\* rain_max = rain_max or config.RAIN_MAX
effective_rain_max(rm) == IF rm = 0 THEN RAIN_MAX ELSE rm

\* rain_ratio = min(rainfall_mm / rain_max, 1.0), as steps p over q
rain_ratio(rain, rm) ==
    [p |-> Min(rain \div RainStep, rm \div RainStep), q |-> rm \div RainStep]

\* rain_factor = rain_ratio ** alpha: its AlphaDen-th power as num / den.
\* A negative float to a non-integer power is a complex number in Python.
rain_factor_of(r) ==
    IF r.p < 0
    THEN [kind |-> "complex"]
    ELSE [kind |-> "real", num |-> Pow(r.p, AlphaNum), den |-> Pow(r.q, AlphaNum)]

\* The AlphaDen-th power of FSI value 1.0 over the raster's denominator.
One(rm) == Pow(BaseDen, AlphaDen) * Pow(rm \div RainStep, AlphaNum)

\* Pow(b, AlphaDen) keeps the sign of b: AlphaDen is odd.
\* fsi = base_risk.multiply(rain_factor).min(1.0).max(0.0)
scaled_fsi(base, f, one) ==
    IF f.kind = "complex"
    THEN [kind |-> "error"]
    ELSE [kind  |-> "raster",
          cells |-> [c \in DOMAIN base |->
                        Max(Min(Pow(base[c], AlphaDen) * f.num, one), 0)]]

\* extreme_threshold = config.RAIN_MAX * 0.3; rainfall_mm >= extreme_threshold
water_forced(rain) == 10 * rain >= 3 * RAIN_MAX

\* forced = fsi.where(water_mask.gt(0), 1.0) above the threshold, else fsi
masked_fsi(f, mask, rain, one) ==
    IF water_forced(rain)
    THEN [kind  |-> "raster",
          cells |-> [c \in DOMAIN f.cells |->
                        IF mask[c] > 0 THEN one ELSE f.cells[c]]]
    ELSE f

RainIdle ==
    /\ rainfall_mm = 0
    /\ rain_max = 0
    /\ base_risk = <<>>
    /\ water_mask = <<>>
    /\ rain_factor = NoResult
    /\ fsi = NoResult
    /\ flood_risk = NoResult

RainStart ==
    /\ rainfall_mm \in RainValues
    /\ rain_max \in RainMaxArgs
    /\ base_risk \in [Cells -> BaseValues]
    /\ water_mask \in [Cells -> {0, 1}]
    /\ rain_factor = NoResult
    /\ fsi = NoResult
    /\ flood_risk = NoResult

\* apply_rainfall_multiplier(base_risk, rainfall_mm, rain_max)
ApplyRainfallMultiplier ==
    /\ fsi = NoResult
    /\ LET rm == effective_rain_max(rain_max)
           f  == rain_factor_of(rain_ratio(rainfall_mm, rm))
       IN  /\ rain_factor' = f
           /\ fsi' = scaled_fsi(base_risk, f, One(rm))
    /\ UNCHANGED <<rainfall_mm, rain_max, base_risk, water_mask, flood_risk, exceptRain>>

\* apply_water_mask(fsi, water_mask, rainfall_mm)
ApplyWaterMask ==
    /\ fsi # NoResult
    /\ fsi.kind = "raster"
    /\ flood_risk = NoResult
    /\ flood_risk' = masked_fsi(fsi, water_mask, rainfall_mm,
                                One(effective_rain_max(rain_max)))
    /\ UNCHANGED <<rainfall_mm, rain_max, base_risk, water_mask, rain_factor, fsi, exceptRain>>

RainNext == ApplyRainfallMultiplier \/ ApplyWaterMask

(***************************************************************************)
(* src/hydrology.py: compute_flow_accumulation                             *)
(***************************************************************************)
\* Largest elevation of the generated DEMs (elevations 0..MaxElev).
MaxElev == 3

\* Shapes (rows, cols) of the generated DEMs.
DemShapes == {<<2, 2>>, <<1, 4>>, <<2, 3>>}

\* D8 direction offsets: (row_offset, col_offset), by index 0..7
neighbors ==
    << <<0 - 1, 0 - 1>>, <<0 - 1, 0>>, <<0 - 1, 1>>,
       <<0, 0 - 1>>,                   <<0, 1>>,
       <<1, 0 - 1>>,     <<1, 0>>,     <<1, 1>> >>

CellsOf(shape) == 0..(shape[1] * shape[2] - 1)

\* The cell reached from `cell` by direction idx, or -1 outside the grid:
\* 0 <= nr < rows and 0 <= nc < cols
neighbor_cell(shape, cell, idx) ==
    LET nr == (cell \div shape[2]) + neighbors[idx + 1][1]
        nc == (cell % shape[2]) + neighbors[idx + 1][2]
    IN  IF 0 <= nr /\ nr < shape[1] /\ 0 <= nc /\ nc < shape[2]
        THEN nr * shape[2] + nc
        ELSE 0 - 1

\* Variant: a drop of zero counts as downhill.
steepest_descent_or_level(dem, shape, cell) ==
    LET drop(idx) == dem[cell] - dem[neighbor_cell(shape, cell, idx)]
        lower == {idx \in 0..7 : /\ neighbor_cell(shape, cell, idx) >= 0
                                 /\ drop(idx) >= 0}
    IN  IF lower = {} THEN 0 - 1
        ELSE CHOOSE idx \in lower :
                \A j \in lower : \/ drop(j) < drop(idx)
                                 \/ (drop(j) = drop(idx) /\ idx <= j)

\* Variant of the neighbour loop: an equal drop replaces the best so far.
RECURSIVE scan_neighbors_last(_, _, _, _, _, _)
scan_neighbors_last(dem, shape, cell, idx, steepest_drop, best_idx) ==
    IF idx > 7 THEN best_idx
    ELSE LET n == neighbor_cell(shape, cell, idx)
         IN  IF n >= 0 /\ dem[cell] - dem[n] >= steepest_drop /\ dem[cell] - dem[n] > 0
             THEN scan_neighbors_last(dem, shape, cell, idx + 1, dem[cell] - dem[n], idx)
             ELSE scan_neighbors_last(dem, shape, cell, idx + 1, steepest_drop, best_idx)

\* Variant: the last direction with the largest drop.
steepest_descent_last(dem, shape, cell) ==
    scan_neighbors_last(dem, shape, cell, 0, 0, 0 - 1)

\* for idx, (dr, dc) in enumerate(neighbors): from direction idx on, with
\* the steepest_drop and best_idx found so far
\*     if in grid: drop = dem[r, c] - dem[nr, nc]
\*                 if drop > steepest_drop: steepest_drop, best_idx = drop, idx
RECURSIVE scan_neighbors(_, _, _, _, _, _)
scan_neighbors(dem, shape, cell, idx, steepest_drop, best_idx) ==
    IF idx > 7 THEN best_idx
    ELSE LET n == neighbor_cell(shape, cell, idx)
         IN  IF n >= 0 /\ dem[cell] - dem[n] > steepest_drop
             THEN scan_neighbors(dem, shape, cell, idx + 1, dem[cell] - dem[n], idx)
             ELSE scan_neighbors(dem, shape, cell, idx + 1, steepest_drop, best_idx)

\* best_idx of one cell: steepest_drop = 0, best_idx = -1, then the loop
\* over the eight neighbours
steepest_descent(dem, shape, cell) ==
    scan_neighbors(dem, shape, cell, 0, 0, 0 - 1)

\* Variant: the visited cell passes on one unit instead of its accumulation.
accumulate_unit(acc, shape, dir, cell) ==
    IF dir[cell] >= 0
    THEN [acc EXCEPT ![neighbor_cell(shape, cell, dir[cell])] = @ + 1]
    ELSE acc

\* One visit of the accumulation pass:
\* if d >= 0: flow_accum[nr, nc] += flow_accum[r, c]
accumulate(acc, shape, dir, cell) ==
    IF dir[cell] >= 0
    THEN [acc EXCEPT ![neighbor_cell(shape, cell, dir[cell])] = @ + acc[cell]]
    ELSE acc

FlowIdle ==
    /\ dem_shape = <<1, 1>>
    /\ dem_array = [c \in {0} |-> 0]
    /\ flow_dir = [c \in {0} |-> 0 - 1]
    /\ flow_accum = [c \in {0} |-> 1]
    /\ processed = {}
    /\ flow_pc = "done"

\* flow_accum = np.ones(...); flow_dir = np.full(..., -1)
FlowStart ==
    /\ dem_shape \in DemShapes
    /\ dem_array \in [CellsOf(dem_shape) -> 0..MaxElev]
    /\ flow_dir = [c \in CellsOf(dem_shape) |-> 0 - 1]
    /\ flow_accum = [c \in CellsOf(dem_shape) |-> 1]
    /\ processed = {}
    /\ flow_pc = "start"

\* The flow-direction pass over the whole grid.
ComputeFlowDirections ==
    /\ flow_pc = "start"
    /\ flow_dir' = [c \in CellsOf(dem_shape) |->
                        steepest_descent(dem_array, dem_shape, c)]
    /\ flow_pc' = "accumulate"
    /\ UNCHANGED <<dem_shape, dem_array, flow_accum, processed, exceptFlow>>

\* One iteration of the accumulation pass.  np.argsort(-dem.ravel()) visits
\* the cells by descending elevation; the default sort is not stable, so
\* the order among equal elevations is any.
AccumulateCell ==
    /\ flow_pc = "accumulate"
    /\ \E cell \in CellsOf(dem_shape) \ processed :
          /\ \A o \in CellsOf(dem_shape) \ processed : dem_array[o] <= dem_array[cell]
          /\ flow_accum' = accumulate(flow_accum, dem_shape, flow_dir, cell)
          /\ processed' = processed \cup {cell}
          /\ flow_pc' = IF processed' = CellsOf(dem_shape) THEN "done" ELSE "accumulate"
    /\ UNCHANGED <<dem_shape, dem_array, flow_dir, exceptFlow>>

FlowNext == ComputeFlowDirections \/ AccumulateCell

(***************************************************************************)
(* src/road_network.py                                                     *)
(*                                                                         *)
(* A graph is a networkx MultiDiGraph: node -> attribute dict, and the     *)
(* edges (u, v, key) with their attribute dicts, in adjacency order.  The  *)
(* nodes lie on one meridian, so _haversine_m between two of them is       *)
(* R * |lat1 - lat2|: the node coordinate y counts that distance in whole  *)
(* units, and lengths are in tenths of the unit.                           *)
(***************************************************************************)
\* A raster value is a number of hundredths or NaN; every comparison with
\* NaN is false.
float_nan == 0 - 1

\* Variant: NaN compares as larger than every number.
float_ge_nan_largest(a, b) == a = float_nan \/ (b # float_nan /\ a >= b)

float_lt(a, b) == a # float_nan /\ b # float_nan /\ a < b
float_gt(a, b) == a # float_nan /\ b # float_nan /\ a > b
float_ge(a, b) == a # float_nan /\ b # float_nan /\ a >= b

FLOOD_RISK_PENALTY_FACTOR == 10
HIGH_RISK_ROAD_THRESHOLD == 66
safe_threshold == 30

MaxEdges == 3

NodeY == <<0, 1, 3>>
Nodes == DOMAIN NodeY
\* the longitude of the meridian the nodes lie on
NodeX == [n \in Nodes |-> 0 - 1]

\* FSI values of the risk raster, in hundredths
EdgeRiskValues == {0, safe_threshold, HIGH_RISK_ROAD_THRESHOLD}
NodeFsiValues == {10, safe_threshold}

Abs(x) == IF x < 0 THEN 0 - x ELSE x

_haversine_m(a, b) == 10 * Abs(NodeY[a] - NodeY[b])

\* A road segment a -> b as OSM serves it, straight or bent (one unit
\* longer), with the FSI of the raster cell at the midpoint of a and b.
Segments ==
    {[u |-> a, v |-> b, length |-> _haversine_m(a, b) + bend, risk |-> r] :
        a \in Nodes, b \in Nodes, bend \in {0, 10}, r \in EdgeRiskValues}

Rank(s) == (s.u * (Cardinality(Nodes) + 1) + s.v) * 2 + (IF s.length > _haversine_m(s.u, s.v) THEN 1 ELSE 0)

\* A segment that can follow the segments of net in adjacency order: no
\* self-loop, and, the midpoint being computed from the end nodes alone, the
\* same risk as any segment of net between the same two nodes.
Extends(net, e) ==
    /\ e.u # e.v
    /\ net # <<>> => Rank(net[Len(net)]) < Rank(e)
    /\ \A i \in DOMAIN net : {net[i].u, net[i].v} = {e.u, e.v} => net[i].risk = e.risk

RECURSIVE NetworksOfSize(_)
NetworksOfSize(k) ==
    IF k = 0 THEN {<<>>}
    ELSE {Append(x[1], x[2]) : x \in {y \in NetworksOfSize(k - 1) \X Segments : Extends(y[1], y[2])}}

\* Road networks of at most MaxEdges segments
Networks == UNION {NetworksOfSize(k) : k \in 0..MaxEdges}

NodePairs == {{a, b} : a \in Nodes, b \in Nodes}

\* The raster as the sampling code reads it: the cell value at the midpoint
\* of two nodes (mid) and at a node (node).
RiskTif(net, nodeFsi) ==
    [mid  |-> [p \in NodePairs |->
                 IF \E i \in DOMAIN net : {net[i].u, net[i].v} = p
                 THEN (CHOOSE r \in EdgeRiskValues :
                          \E i \in DOMAIN net : {net[i].u, net[i].v} = p /\ net[i].risk = r)
                 ELSE 0],
     node |-> nodeFsi]

\* ox.graph_from_point: the graph as downloaded, no flood attributes yet
graph_from_point(net) ==
    [nodes |-> [n \in Nodes |-> [y |-> NodeY[n], x |-> NodeX[n], labelled |-> FALSE, fsi |-> 0, is_safe |-> FALSE]],
     edges |-> [i \in DOMAIN net |->
                  [u |-> net[i].u, v |-> net[i].v,
                   key |-> Cardinality({j \in 1..(i - 1) : net[j].u = net[i].u /\ net[j].v = net[i].v}),
                   length |-> net[i].length, sampled |-> FALSE, flood_risk |-> 0]]]

\* sample_risk_on_edges: G.edges[u, v, k]["flood_risk"] = risk at the midpoint
sample_risk_on_edges(G, tif) ==
    [G EXCEPT !.edges = [i \in DOMAIN G.edges |->
        [G.edges[i] EXCEPT !.sampled = TRUE,
                           !.flood_risk = tif.mid[{G.edges[i].u, G.edges[i].v}]]]]

\* data.get("flood_risk", 0.0)
risk_of(e) == IF e.sampled THEN e.flood_risk ELSE 0

\* Variant: an edge is removed only when its risk exceeds the threshold.
removed_above(e) == float_gt(risk_of(e), HIGH_RISK_ROAD_THRESHOLD)

\* risk >= remove_threshold
removed(e) == float_ge(risk_of(e), HIGH_RISK_ROAD_THRESHOLD)

\* data["length"] = data.get("length", 1) * (1 + risk * penalty_factor)
penalized(e) ==
    IF float_gt(risk_of(e), 0)
    THEN [e EXCEPT !.length = (e.length * (100 + risk_of(e) * FLOOD_RISK_PENALTY_FACTOR)) \div 100]
    ELSE e

keep(e) == ~removed(e)

\* penalize_flooded_edges with the default factor and threshold; mutates G
penalize_flooded_edges(G) ==
    LET kept == SelectSeq(G.edges, keep)
    IN  [G EXCEPT !.edges = [i \in DOMAIN kept |-> penalized(kept[i])]]

\* label_safe_nodes: data["fsi"], data["is_safe"] = fsi < safe_threshold
label_safe_nodes(G, tif) ==
    [G EXCEPT !.nodes = [n \in Nodes |->
        [G.nodes[n] EXCEPT !.labelled = TRUE, !.fsi = tif.node[n],
                           !.is_safe = tif.node[n] < safe_threshold]]]

\* Variant: no copy is taken, the caller's object itself is handed on.
deepcopy_alias(heap, ref) == [heap |-> heap, ref |-> ref]

\* copy.deepcopy(graph): a new object with equal contents
deepcopy(heap, ref) == [heap |-> Append(heap, heap[ref]), ref |-> Len(heap) + 1]

(***************************************************************************)
(* src/evacuation.py: find_escape_route                                    *)
(***************************************************************************)
\* [n for n, d in G.nodes(data=True) if d.get("is_safe", False)]
safe_nodes(G) == {n \in Nodes : G.nodes[n].labelled /\ G.nodes[n].is_safe}

\* Variant: weighted A*, the heuristic counted twice.
heuristic_doubled(safe, node) ==
    2 * (CHOOSE d \in {_haversine_m(node, s) : s \in safe} :
            \A s \in safe : d <= _haversine_m(node, s))

\* heuristic(node): minimum haversine distance to any safe node
heuristic(safe, node) ==
    CHOOSE d \in {_haversine_m(node, s) : s \in safe} :
        \A s \in safe : d <= _haversine_m(node, s)

\* Variant: every edge incident to the node, whatever its direction.
incident_edges(G, node) ==
    LET Touches(e) == e.u = node \/ e.v = node
        inc == SelectSeq(G.edges, Touches)
    IN  [i \in DOMAIN inc |-> IF inc[i].u = node THEN inc[i]
                              ELSE [inc[i] EXCEPT !.u = node, !.v = inc[i].u]]

\* G.edges(current, data=True): the out-edges of the node
out_edges(G, node) ==
    LET Leaves(e) == e.u = node
    IN  SelectSeq(G.edges, Leaves)

\* order of the heap entries (f, g, node)
entry_le(a, b) ==
    \/ a[1] < b[1]
    \/ a[1] = b[1] /\ a[2] < b[2]
    \/ a[1] = b[1] /\ a[2] = b[2] /\ a[3] <= b[3]

\* the entry heapq.heappop returns
heappop(open) == CHOOSE a \in open : \A b \in open : entry_le(a, b)

\* One pass of the loop body over an out-edge of `current`, popped with
\* cost g; st = [open, g, from] are open_set, g_scores, came_from.
relax(st, g, current, e, safe, closed) ==
    IF e.v \in closed THEN st
    ELSE LET tentative_g == g + e.length
         IN  IF e.v \notin DOMAIN st.g \/ tentative_g < st.g[e.v]
             THEN [open |-> st.open \cup {<<tentative_g + heuristic(safe, e.v), tentative_g, e.v>>},
                   g    |-> (e.v :> tentative_g) @@ st.g,
                   from |-> (e.v :> current) @@ st.from]
             ELSE st

\* for _, neighbour, edge_data in G.edges(current, data=True): ...
RECURSIVE expand(_, _, _, _, _, _)
expand(st, g, current, es, safe, closed) ==
    IF es = <<>> THEN st
    ELSE expand(relax(st, g, current, Head(es), safe, closed), g, current, Tail(es), safe, closed)

\* Variant: the popped node is not recorded.
visited_add_nothing(closed, current) == closed

\* visited.add(current)
visited_add(closed, current) == closed \cup {current}

\* Variant: the path is not reversed.
RECURSIVE reconstruct_unreversed(_, _, _)
reconstruct_unreversed(from, node, start) ==
    IF node \in DOMAIN from THEN <<node>> \o reconstruct_unreversed(from, from[node], start)
    ELSE <<start>>

\* path reconstruction: follow came_from back from the goal, then append
\* start_node and reverse
RECURSIVE reconstruct(_, _, _)
reconstruct(from, node, start) ==
    IF node \in DOMAIN from THEN Append(reconstruct(from, from[node], start), node)
    ELSE <<start>>

\* Variant: the descriptor carries the default FSI, not the node's.
found_default_fsi(G, path, cost) ==
    [kind |-> "route",
     path |-> path,
     route |-> [i \in DOMAIN path |-> <<G.nodes[path[i]].y, G.nodes[path[i]].x>>],
     dest |-> [lat |-> G.nodes[path[Len(path)]].y,
               lon |-> G.nodes[path[Len(path)]].x,
               fsi |-> 0],
     dist |-> cost]

\* return route, dest_info: the waypoints (y, x) of the path and the
\* descriptor {lat, lon, fsi} of its last node; fsi is dest.get("fsi", 0)
found(G, path, cost) ==
    [kind |-> "route",
     path |-> path,
     route |-> [i \in DOMAIN path |-> <<G.nodes[path[i]].y, G.nodes[path[i]].x>>],
     dest |-> [lat |-> G.nodes[path[Len(path)]].y,
               lon |-> G.nodes[path[Len(path)]].x,
               fsi |-> IF G.nodes[path[Len(path)]].labelled THEN G.nodes[path[Len(path)]].fsi ELSE 0],
     dist |-> cost]

absent == [kind |-> "None"]

(***************************************************************************)
(* app.py, _run_pipeline phase 6                                           *)
(***************************************************************************)
RoadIdle ==
    /\ osm_graph = <<>>
    /\ risk_tif = NoResult
    /\ graphs = <<>>
    /\ _cached_graph = 0
    /\ road_graph = 0
    /\ road_graph_safe = 0
    /\ start_node = 0
    /\ open_set = {}
    /\ g_scores = <<>>
    /\ came_from = <<>>
    /\ visited = {}
    /\ route = NoResult
    /\ road_pc = "idle"

RoadStart ==
    /\ \E net \in Networks, nodeFsi \in [Nodes -> NodeFsiValues] :
          /\ osm_graph = [i \in DOMAIN net |-> [u |-> net[i].u, v |-> net[i].v, length |-> net[i].length]]
          /\ risk_tif = RiskTif(net, nodeFsi)
    /\ graphs = <<>>
    /\ _cached_graph = 0
    /\ road_graph = 0
    /\ road_graph_safe = 0
    /\ start_node = 0
    /\ open_set = {}
    /\ g_scores = <<>>
    /\ came_from = <<>>
    /\ visited = {}
    /\ route = NoResult
    /\ road_pc = "load"

astarVars == <<start_node, open_set, g_scores, came_from, visited, route>>

\* road_graph = load_road_network(lat, lon, radius): nothing is cached yet,
\* so the graph is downloaded, and the module cache keeps a reference to the
\* very object that is returned.  When every attempt fails the exception
\* ends phase 6 in the except clause of _run_pipeline.
LoadRoadNetwork ==
    /\ road_pc = "load"
    /\ \E downloaded \in BOOLEAN :
          IF downloaded
          THEN /\ graphs' = Append(graphs, graph_from_point(osm_graph))
               /\ _cached_graph' = Len(graphs) + 1
               /\ road_graph' = Len(graphs) + 1
               /\ road_pc' = "sample"
          ELSE /\ road_pc' = "failed"
               /\ UNCHANGED <<graphs, _cached_graph, road_graph>>
    /\ UNCHANGED <<osm_graph, risk_tif, road_graph_safe, astarVars, exceptRoad>>

\* road_graph = sample_risk_on_edges(road_graph, risk_tif): in place
SampleRiskOnEdges ==
    /\ road_pc = "sample"
    /\ graphs' = [graphs EXCEPT ![road_graph] = sample_risk_on_edges(@, risk_tif)]
    /\ road_pc' = "penalize"
    /\ UNCHANGED <<osm_graph, risk_tif, _cached_graph, road_graph, road_graph_safe, astarVars,
                   exceptRoad>>

\* road_graph_safe = penalize_flooded_edges(copy.deepcopy(road_graph))
PenalizeFloodedEdges ==
    /\ road_pc = "penalize"
    /\ LET c == deepcopy(graphs, road_graph)
       IN  /\ graphs' = [c.heap EXCEPT ![c.ref] = penalize_flooded_edges(@)]
           /\ road_graph_safe' = c.ref
    /\ road_pc' = "label"
    /\ UNCHANGED <<osm_graph, risk_tif, _cached_graph, road_graph, astarVars,
                   exceptRoad>>

\* label_safe_nodes(road_graph_safe, risk_tif): in place
LabelSafeNodes ==
    /\ road_pc = "label"
    /\ graphs' = [graphs EXCEPT ![road_graph_safe] = label_safe_nodes(@, risk_tif)]
    /\ road_pc' = "route"
    /\ UNCHANGED <<osm_graph, risk_tif, _cached_graph, road_graph, road_graph_safe, astarVars,
                   exceptRoad>>

\* find_escape_route(road_graph_safe, lat, lon) up to the loop: the start is
\* snapped to a node; a safe start and a graph without safe nodes return at once
FindEscapeRoute ==
    /\ road_pc = "route"
    /\ \E s \in Nodes :
          LET G == graphs[road_graph_safe]
              safe == safe_nodes(G)
          IN  /\ start_node' = s
              /\ IF s \in safe
                 THEN /\ route' = found(G, <<s>>, 0)
                      /\ road_pc' = "done"
                      /\ UNCHANGED <<open_set, g_scores, came_from>>
                 ELSE IF safe = {}
                 THEN /\ route' = absent
                      /\ road_pc' = "done"
                      /\ UNCHANGED <<open_set, g_scores, came_from>>
                 ELSE /\ open_set' = {<<heuristic(safe, s), 0, s>>}
                      /\ g_scores' = (s :> 0)
                      /\ came_from' = <<>>
                      /\ route' = route
                      /\ road_pc' = "astar"
    /\ UNCHANGED <<osm_graph, risk_tif, graphs, _cached_graph, road_graph, road_graph_safe, visited,
                   exceptRoad>>

\* one iteration of `while open_set:`
AStarIteration ==
    /\ road_pc = "astar"
    /\ open_set # {}
    /\ LET G == graphs[road_graph_safe]
           safe == safe_nodes(G)
           top == heappop(open_set)
           g == top[2]
           current == top[3]
       IN  IF current \in visited
           THEN /\ open_set' = open_set \ {top}
                /\ UNCHANGED <<g_scores, came_from, visited, route, road_pc>>
           ELSE IF current \in safe
           THEN /\ open_set' = open_set \ {top}
                /\ visited' = visited_add(visited, current)
                /\ route' = found(G, reconstruct(came_from, current, start_node), g_scores[current])
                /\ road_pc' = "done"
                /\ UNCHANGED <<g_scores, came_from>>
           ELSE LET st == expand([open |-> open_set \ {top}, g |-> g_scores, from |-> came_from],
                                 g, current, out_edges(G, current), safe, visited_add(visited, current))
                IN  /\ open_set' = st.open
                    /\ g_scores' = st.g
                    /\ came_from' = st.from
                    /\ visited' = visited_add(visited, current)
                    /\ UNCHANGED <<route, road_pc>>
    /\ UNCHANGED <<osm_graph, risk_tif, graphs, _cached_graph, road_graph, road_graph_safe, start_node,
                   exceptRoad>>

\* the loop ends with the heap empty: return None, None
AStarExhausted ==
    /\ road_pc = "astar"
    /\ open_set = {}
    /\ route' = absent
    /\ road_pc' = "done"
    /\ UNCHANGED <<osm_graph, risk_tif, graphs, _cached_graph, road_graph, road_graph_safe,
                   start_node, open_set, g_scores, came_from, visited,
                   exceptRoad>>

\* find_escape_route called on a labelled graph: up to MaxAstarEdges edges
\* over the nodes, self-loops, parallel edges and zero lengths included
MaxAstarEdges == 3

AstarLengths == {0, 20}

AstarSafeSets == {{3}, {1}}

astar_graph(es, safe) ==
    [nodes |-> [n \in Nodes |-> [y |-> NodeY[n], x |-> NodeX[n], labelled |-> TRUE,
                                  fsi |-> IF n \in safe THEN 10 ELSE safe_threshold,
                                  is_safe |-> n \in safe]],
     edges |-> [i \in DOMAIN es |->
                  [u |-> es[i][1], v |-> es[i][2],
                   key |-> Cardinality({j \in 1..(i - 1) : es[j][1] = es[i][1] /\ es[j][2] = es[i][2]}),
                   length |-> es[i][3], sampled |-> TRUE, flood_risk |-> 0]]]

AstarStart ==
    /\ osm_graph = <<>>
    /\ risk_tif = NoResult
    /\ \E k \in 0..MaxAstarEdges, safe \in AstarSafeSets :
          \E es \in [1..k -> Nodes \X Nodes \X AstarLengths] :
              graphs = <<astar_graph(es, safe)>>
    /\ _cached_graph = 0
    /\ road_graph = 0
    /\ road_graph_safe = 1
    /\ start_node = 0
    /\ open_set = {}
    /\ g_scores = <<>>
    /\ came_from = <<>>
    /\ visited = {}
    /\ route = NoResult
    /\ road_pc = "route"

AstarNext ==
    \/ FindEscapeRoute
    \/ AStarIteration
    \/ AStarExhausted

RoadNext ==
    \/ LoadRoadNetwork
    \/ SampleRiskOnEdges
    \/ PenalizeFloodedEdges
    \/ LabelSafeNodes
    \/ FindEscapeRoute
    \/ AStarIteration
    \/ AStarExhausted

(***************************************************************************)
(* src/hydrology.py: normalize_flow_accumulation, compute_river_proximity; *)
(* src/preprocessing.py: normalize_elevation, normalize_slope              *)
(*                                                                         *)
(* The results are logarithms, square roots and quotients.  A cell value   *)
(* is kept as the expression the code evaluates:                           *)
(*   [kind |-> "num", n, d]            n / d                               *)
(*   [kind |-> "log", a, b, c]         ln(a / b) / ln(c / b),  b <= a <= c *)
(*   [kind |-> "sqrt", n, d]           1 - sqrt(n / d),        0 <= n <= d *)
(*   [kind |-> "nan"]                  not a number / masked               *)
(* and IsZero, IsOne and Leq decide it exactly.                            *)
(***************************************************************************)
NormCells == 3
MaxAccum == 3
MaxExtent == 5

Num(n, d) == [kind |-> "num", n |-> n, d |-> d]
ZeroValue == Num(0, 1)
OneValue == Num(1, 1)
NaN == [kind |-> "nan"]

IsZero(v) ==
    \/ v.kind = "num" /\ v.n = 0
    \/ v.kind = "log" /\ v.a = v.b
    \/ v.kind = "sqrt" /\ v.n = v.d

IsOne(v) ==
    \/ v.kind = "num" /\ v.n = v.d
    \/ v.kind = "log" /\ v.a = v.c
    \/ v.kind = "sqrt" /\ v.n = 0

InUnitInterval(v) ==
    \/ v.kind = "num" /\ 0 <= v.n /\ v.n <= v.d
    \/ v.kind = "log" /\ v.b <= v.a /\ v.a <= v.c
    \/ v.kind = "sqrt" /\ 0 <= v.n /\ v.n <= v.d

MinSeq(s) == CHOOSE x \in {s[i] : i \in DOMAIN s} : \A i \in DOMAIN s : x <= s[i]
MaxSeq(s) == CHOOSE x \in {s[i] : i \in DOMAIN s} : \A i \in DOMAIN s : x >= s[i]

\* normalize_flow_accumulation: log1p, then min-max with a guard
normalize_flow_accumulation(fa) ==
    LET fa_min == 1 + MinSeq(fa)
        fa_max == 1 + MaxSeq(fa)
    IN  IF fa_max > fa_min
        THEN [values |-> [i \in DOMAIN fa |-> [kind |-> "log", a |-> 1 + fa[i], b |-> fa_min, c |-> fa_max]],
              divided_by_zero |-> FALSE]
        ELSE [values |-> [i \in DOMAIN fa |-> ZeroValue], divided_by_zero |-> FALSE]

\* ee.Image.divide by the constant max - min: a zero divisor gives 0 by the
\* documentation of Earth Engine, or a masked pixel
ee_divide(x, divisor, by_zero) ==
    IF divisor = 0 THEN by_zero ELSE Num(x, divisor)

\* ee.Image(1).subtract(image)
ee_one_minus(v) == IF v.kind = "nan" THEN NaN ELSE Num(v.d - v.n, v.d)

\* normalize_elevation / normalize_slope: inverted min-max, no guard
normalize_inverted(band, by_zero) ==
    LET lo == MinSeq(band)
        hi == MaxSeq(band)
    IN  [values |-> [i \in DOMAIN band |-> ee_one_minus(ee_divide(band[i] - lo, hi - lo, by_zero))],
         divided_by_zero |-> hi - lo = 0]

\* Variant: the size is not clamped to one pixel.
grid_size_unclamped(extent) == extent \div 2

\* width / height = max(1, int(extent / deg_per_pixel)); the extent is given
\* in half pixels
grid_size(extent) == Max(1, extent \div 2)

GridCells(shape) == {<<r, c>> : r \in 0..(shape[1] - 1), c \in 0..(shape[2] - 1)}

SqDist(p, q) == (p[1] - q[1]) * (p[1] - q[1]) + (p[2] - q[2]) * (p[2] - q[2])

\* Variant: the distance to the farthest water cell.
distance_to_farthest(water, cell) ==
    CHOOSE d \in {SqDist(cell, w) : w \in water} : \A w \in water : d >= SqDist(cell, w)

\* ndimage.distance_transform_edt(water_raster == 0), squared: the distance
\* from a cell to the nearest water cell
distance_transform_edt(water, cell) ==
    CHOOSE d \in {SqDist(cell, w) : w \in water} : \A w \in water : d <= SqDist(cell, w)

\* compute_river_proximity; water is what rasterize marks for the geometries
compute_river_proximity(shape, gdf_empty, water) ==
    IF gdf_empty
    THEN [kind |-> "ok", shape |-> shape,
          river_factor |-> [cell \in GridCells(shape) |-> ZeroValue],
          water_mask |-> [cell \in GridCells(shape) |-> 0]]
    ELSE IF water = {}
    THEN [kind |-> "edt_without_water", shape |-> shape,
          water_mask |-> [cell \in GridCells(shape) |-> 0]]
    ELSE LET dist == [cell \in GridCells(shape) |-> distance_transform_edt(water, cell)]
             d_max == CHOOSE d \in {dist[cell] : cell \in GridCells(shape)} :
                          \A cell \in GridCells(shape) : d >= dist[cell]
         IN  [kind |-> "ok", shape |-> shape,
              river_factor |-> [cell \in GridCells(shape) |->
                                  IF d_max > 0 THEN [kind |-> "sqrt", n |-> dist[cell], d |-> d_max]
                                  ELSE OneValue],
              water_mask |-> [cell \in GridCells(shape) |-> IF cell \in water THEN 1 ELSE 0]]

HydroIdle ==
    /\ hydro_fn = "idle"
    /\ hydro_in = NoResult
    /\ hydro_out = NoResult

HydroStart ==
    /\ hydro_out = NoResult
    /\ \/ /\ hydro_fn = "normalize_flow_accumulation"
          /\ hydro_in \in [1..NormCells -> 1..MaxAccum]
       \/ /\ hydro_fn \in {"normalize_elevation", "normalize_slope"}
          /\ hydro_in \in [1..NormCells -> 0..MaxElev]
       \/ /\ hydro_fn = "compute_river_proximity"
          /\ \E ew \in 0..MaxExtent, eh \in 0..MaxExtent, empty \in BOOLEAN :
                \E water \in SUBSET GridCells(<<grid_size(eh), grid_size(ew)>>) :
                    /\ empty => water = {}
                    /\ hydro_in = [extent |-> <<ew, eh>>, gdf_empty |-> empty, water |-> water]

NormalizeFlowAccumulation ==
    /\ hydro_fn = "normalize_flow_accumulation"
    /\ hydro_out = NoResult
    /\ hydro_out' = normalize_flow_accumulation(hydro_in)
    /\ UNCHANGED <<hydro_fn, hydro_in, exceptHydro>>

NormalizeElevation ==
    /\ hydro_fn = "normalize_elevation"
    /\ hydro_out = NoResult
    /\ \E by_zero \in {ZeroValue, NaN} : hydro_out' = normalize_inverted(hydro_in, by_zero)
    /\ UNCHANGED <<hydro_fn, hydro_in, exceptHydro>>

NormalizeSlope ==
    /\ hydro_fn = "normalize_slope"
    /\ hydro_out = NoResult
    /\ \E by_zero \in {ZeroValue, NaN} : hydro_out' = normalize_inverted(hydro_in, by_zero)
    /\ UNCHANGED <<hydro_fn, hydro_in, exceptHydro>>

ComputeRiverProximity ==
    /\ hydro_fn = "compute_river_proximity"
    /\ hydro_out = NoResult
    /\ hydro_out' = compute_river_proximity(
                        <<grid_size(hydro_in.extent[2]), grid_size(hydro_in.extent[1])>>,
                        hydro_in.gdf_empty, hydro_in.water)
    /\ UNCHANGED <<hydro_fn, hydro_in, exceptHydro>>

HydroNext ==
    \/ NormalizeFlowAccumulation
    \/ NormalizeElevation
    \/ NormalizeSlope
    \/ ComputeRiverProximity

(***************************************************************************)
(* app.py: the job store and _run_pipeline; main.py: the CLI run           *)
(*                                                                         *)
(* A pipeline step either returns or raises; what a step computes is       *)
(* modelled in the sections above, here only which handler an exception    *)
(* reaches and what the run has produced by then.                          *)
(***************************************************************************)
JobIds == {"job1", "job2"}

None == "None"

\* the statements of the try block of phase 6, in order
RoadSteps == <<"load_road_network", "sample_risk_on_edges", "count_affected_roads",
               "penalize_flooded_edges", "label_safe_nodes", "find_escape_route">>

\* def statements of src/evacuation.py
evacuation_defs == {"_haversine_m", "find_escape_route"}

\* from src.evacuation import ... in main.py and in app.py
main_imports_evacuation == {"find_shelters", "find_best_route"}
app_imports_evacuation == {"find_escape_route"}

\* the "result": None of a job that has no result dictionary
no_result == [kind |-> "None"]

new_job == [status |-> "running", result |-> no_result, error |-> None]

new_locals ==
    [road_geojson |-> None, evac_geojson |-> None, escape_dest |-> None,
     road_stats |-> None, risk_stats |-> None, road_failed |-> None, exc |-> None]

\* what a statement of the try block assigns when it returns
road_step_effect(loc, step, route_found) ==
    IF step = "count_affected_roads"
    THEN [loc EXCEPT !.road_geojson = "geojson", !.road_stats = "stats"]
    ELSE IF step = "find_escape_route" /\ route_found
    THEN [loc EXCEPT !.evac_geojson = "geojson", !.escape_dest = "dest"]
    ELSE loc

\* the result dictionary assembled after phase 7
result_of(loc) ==
    [risk_stats |-> loc.risk_stats, road_stats |-> loc.road_stats, roads |-> loc.road_geojson,
     evacuation_route |-> loc.evac_geojson, escape_destination |-> loc.escape_dest]

JobsIdle ==
    /\ jobs = <<>>
    /\ job_pc = <<>>
    /\ job_locals = <<>>
    /\ cli_pc = "idle"
    /\ cli_out = NoResult
    /\ status_job = None
    /\ status_response = NoResult

JobsStart ==
    /\ jobs = <<>>
    /\ job_pc = <<>>
    /\ job_locals = <<>>
    /\ cli_pc = "start"
    /\ cli_out = NoResult
    /\ status_job = None
    /\ status_response = NoResult

\* POST /api/analyze: register the job and start its thread
Analyze(j) ==
    /\ j \notin DOMAIN jobs
    /\ jobs' = (j :> new_job) @@ jobs
    /\ job_pc' = (j :> "phases1_5") @@ job_pc
    /\ job_locals' = (j :> new_locals) @@ job_locals
    /\ UNCHANGED <<cli_pc, cli_out, status_job, status_response, exceptJobs>>

\* the job store when the outer except clause of _run_pipeline has finished
job_error(js, j, e) == [js EXCEPT ![j].status = "error", ![j].error = e]

\* threads inside a "with jobs_lock" block of _run_pipeline
lock_holders == {j \in DOMAIN job_pc : job_pc[j] \in {"store_result", "except_error"}}

\* an exception of _run_pipeline reaches the outer except clause
raise_in(loc, phase) == [loc EXCEPT !.exc = phase]

\* _run_pipeline phases 1 to 5, imports included: any exception goes to the
\* outer handler; a failed building fetch is caught in place
RunPhases1To5(j) ==
    /\ j \in DOMAIN job_pc
    /\ job_pc[j] = "phases1_5"
    /\ \E raised \in BOOLEAN :
          IF raised \/ ~(app_imports_evacuation \subseteq evacuation_defs)
          THEN /\ job_locals' = [job_locals EXCEPT ![j] = raise_in(@, "phases1_5")]
               /\ job_pc' = [job_pc EXCEPT ![j] = "except"]
          ELSE /\ job_pc' = [job_pc EXCEPT ![j] = RoadSteps[1]]
               /\ UNCHANGED job_locals
    /\ UNCHANGED <<jobs, cli_pc, cli_out, status_job, status_response, exceptJobs>>

\* one statement of the try block of phase 6; an exception is caught by the
\* except clause of the block, which only prints it
RunRoadStep(j) ==
    /\ j \in DOMAIN job_pc
    /\ \E i \in DOMAIN RoadSteps :
          /\ job_pc[j] = RoadSteps[i]
          /\ \E raised \in BOOLEAN, route_found \in BOOLEAN :
                IF raised
                THEN /\ job_locals' = [job_locals EXCEPT ![j].road_failed = RoadSteps[i]]
                     /\ job_pc' = [job_pc EXCEPT ![j] = "phase7"]
                ELSE /\ job_locals' = [job_locals EXCEPT ![j] = road_step_effect(@, RoadSteps[i], route_found)]
                     /\ job_pc' = [job_pc EXCEPT ![j] = IF i < Len(RoadSteps) THEN RoadSteps[i + 1] ELSE "phase7"]
    /\ UNCHANGED <<jobs, cli_pc, cli_out, status_job, status_response, exceptJobs>>

\* phase 7 and the result dictionary: risk and impact statistics
RunPhase7(j) ==
    /\ j \in DOMAIN job_pc
    /\ job_pc[j] = "phase7"
    /\ \E raised \in BOOLEAN :
          IF raised
          THEN /\ job_locals' = [job_locals EXCEPT ![j] = raise_in(@, "phase7")]
               /\ job_pc' = [job_pc EXCEPT ![j] = "except"]
          ELSE /\ job_locals' = [job_locals EXCEPT ![j].risk_stats = "stats"]
               /\ job_pc' = [job_pc EXCEPT ![j] = "store"]
    /\ UNCHANGED <<jobs, cli_pc, cli_out, status_job, status_response, exceptJobs>>

\* with jobs_lock: jobs[job_id]["status"] = "done"
StoreStatus(j) ==
    /\ j \in DOMAIN job_pc
    /\ job_pc[j] = "store"
    /\ lock_holders = {}
    /\ jobs' = [jobs EXCEPT ![j].status = "done"]
    /\ job_pc' = [job_pc EXCEPT ![j] = "store_result"]
    /\ UNCHANGED <<job_locals, cli_pc, cli_out, status_job, status_response, exceptJobs>>

\* jobs[job_id]["result"] = _sanitize_for_json(result), and the lock is released
StoreResult(j) ==
    /\ j \in DOMAIN job_pc
    /\ job_pc[j] = "store_result"
    /\ jobs' = [jobs EXCEPT ![j].result = result_of(job_locals[j])]
    /\ job_pc' = [job_pc EXCEPT ![j] = "end"]
    /\ UNCHANGED <<job_locals, cli_pc, cli_out, status_job, status_response, exceptJobs>>

\* the outer except clause: with jobs_lock: jobs[job_id]["status"] = "error"
ExceptStatus(j) ==
    /\ j \in DOMAIN job_pc
    /\ job_pc[j] = "except"
    /\ lock_holders = {}
    /\ jobs' = [jobs EXCEPT ![j].status = "error"]
    /\ job_pc' = [job_pc EXCEPT ![j] = "except_error"]
    /\ UNCHANGED <<job_locals, cli_pc, cli_out, status_job, status_response, exceptJobs>>

\* jobs[job_id]["error"] = str(e), and the lock is released
ExceptError(j) ==
    /\ j \in DOMAIN job_pc
    /\ job_pc[j] = "except_error"
    /\ jobs' = job_error(jobs, j, job_locals[j].exc)
    /\ job_pc' = [job_pc EXCEPT ![j] = "end"]
    /\ UNCHANGED <<job_locals, cli_pc, cli_out, status_job, status_response, exceptJobs>>

\* GET /api/status/<job_id>: with jobs_lock: job = jobs.get(job_id)
JobStatusGet(j) ==
    /\ status_job = None
    /\ j \in DOMAIN jobs
    /\ lock_holders = {}
    /\ status_job' = j
    /\ UNCHANGED <<jobs, job_pc, job_locals, cli_pc, cli_out, status_response, exceptJobs>>

\* json.dumps(job, cls=NumpyEncoder), after the lock is released: job is the
\* dictionary of the store, not a copy
JobStatusDumps ==
    /\ status_job # None
    /\ status_response' = jobs[status_job]
    /\ status_job' = None
    /\ UNCHANGED <<jobs, job_pc, job_locals, cli_pc, cli_out, exceptJobs>>

\* python main.py: the module-level imports run before main(); a name the
\* imported module does not define raises ImportError outside every try
CliRun ==
    /\ cli_pc = "start"
    /\ IF main_imports_evacuation \subseteq evacuation_defs
       THEN \E road_failed \in BOOLEAN :
               /\ cli_pc' = "exited"
               /\ cli_out' = [kind |-> "report", risk_stats |-> "stats",
                              evac_route |-> IF road_failed THEN None ELSE "route"]
       ELSE /\ cli_pc' = "exited"
            /\ cli_out' = [kind |-> "ImportError", module |-> "src.evacuation",
                           names |-> main_imports_evacuation \ evacuation_defs]
    /\ UNCHANGED <<jobs, job_pc, job_locals, status_job, status_response, exceptJobs>>

JobsNext ==
    \/ \E j \in JobIds : Analyze(j)
    \/ \E j \in JobIds : RunPhases1To5(j)
    \/ \E j \in JobIds : RunRoadStep(j)
    \/ \E j \in JobIds : RunPhase7(j)
    \/ \E j \in JobIds : StoreStatus(j)
    \/ \E j \in JobIds : StoreResult(j)
    \/ \E j \in JobIds : ExceptStatus(j)
    \/ \E j \in JobIds : ExceptError(j)
    \/ \E j \in JobIds : JobStatusGet(j)
    \/ JobStatusDumps
    \/ CliRun

(***************************************************************************)
(* src/flood_model.py: classify_risk; src/decision_support.py:             *)
(* compute_risk_statistics.  FSI values are hundredths; the rasters have   *)
(* no nodata pixel.                                                        *)
(***************************************************************************)
LOW_MAX == 30
MEDIUM_MAX == 60

ClassCells == 3

\* FSI values at, just below and just above the two thresholds
FsiValues ==
    {0, LOW_MAX - 1, LOW_MAX, LOW_MAX + 1, 40, MEDIUM_MAX - 1, MEDIUM_MAX, MEDIUM_MAX + 1, 70, 100}

\* Variant: the comparisons are gte, not gt.
risk_class_gte(v) ==
    IF v >= MEDIUM_MAX THEN 3 ELSE IF v >= LOW_MAX THEN 2 ELSE 1

\* ee.Image(1).where(risk.gt(low_max), 2).where(risk.gt(medium_max), 3)
risk_class(v) ==
    IF v > MEDIUM_MAX THEN 3 ELSE IF v > LOW_MAX THEN 2 ELSE 1

\* Variant: the thresholds are 0.4 and 0.7 of the full scale.
classify_risk_adaptive_fixed(band) ==
    [kind |-> "image",
     risk_class |-> [i \in DOMAIN band |->
        IF 10 * band[i] > 7 * 100 THEN 3 ELSE IF 10 * band[i] > 4 * 100 THEN 2 ELSE 1]]

\* classify_risk_adaptive(fsi, aoi): max_fsi is the largest value in the AOI,
\* low_max = 0.4 * max_fsi, medium_max = 0.7 * max_fsi (compared in tenths)
classify_risk_adaptive(band) ==
    LET max_fsi == MaxSeq(band)
    IN  [kind |-> "image",
         risk_class |-> [i \in DOMAIN band |->
            IF 10 * band[i] > 7 * max_fsi THEN 3
            ELSE IF 10 * band[i] > 4 * max_fsi THEN 2 ELSE 1]]

\* classify_risk(risk)
classify_risk(band) ==
    [kind |-> "image", risk_class |-> [i \in DOMAIN band |-> risk_class(band[i])]]

\* _class_stats(count): pixels and pct = round(count / total * 100, 1), in tenths
class_stats(count, total) ==
    [pixels |-> count, pct |-> RoundDiv(count * 100, total, 1)]

\* compute_risk_statistics(risk_tif_path)
compute_risk_statistics(band) ==
    LET total == Len(band)
        low == Cardinality({i \in DOMAIN band : band[i] <= LOW_MAX})
        medium == Cardinality({i \in DOMAIN band : band[i] > LOW_MAX /\ band[i] <= MEDIUM_MAX})
        high == Cardinality({i \in DOMAIN band : band[i] > MEDIUM_MAX})
    IN  IF total = 0 THEN [kind |-> "stats", error |-> "No valid pixels"]
        ELSE [kind |-> "stats",
              total_pixels |-> total,
              low_risk     |-> class_stats(low, total),
              medium_risk  |-> class_stats(medium, total),
              high_risk    |-> class_stats(high, total),
              max_risk     |-> MaxSeq(band)]

ClassIdle ==
    /\ fsi_band = <<>>
    /\ risk_classified = NoResult
    /\ risk_stats = NoResult
    /\ risk_adaptive = NoResult

ClassStart ==
    /\ fsi_band \in [1..ClassCells -> FsiValues]
    /\ risk_classified = NoResult
    /\ risk_stats = NoResult
    /\ risk_adaptive = NoResult

\* risk_classified = classify_risk(fsi)
ClassifyRisk ==
    /\ fsi_band # <<>>
    /\ risk_classified = NoResult
    /\ risk_classified' = classify_risk(fsi_band)
    /\ UNCHANGED <<fsi_band, risk_stats, risk_adaptive, exceptClass>>

\* risk_stats = compute_risk_statistics(risk_tif)
ComputeRiskStatistics ==
    /\ fsi_band # <<>>
    /\ risk_stats = NoResult
    /\ risk_stats' = compute_risk_statistics(fsi_band)
    /\ UNCHANGED <<fsi_band, risk_classified, risk_adaptive, exceptClass>>

\* classify_risk_adaptive(fsi, aoi)
ClassifyRiskAdaptive ==
    /\ fsi_band # <<>>
    /\ risk_adaptive = NoResult
    /\ risk_adaptive' = classify_risk_adaptive(fsi_band)
    /\ UNCHANGED <<fsi_band, risk_classified, risk_stats, exceptClass>>

ClassNext == ClassifyRisk \/ ComputeRiskStatistics \/ ClassifyRiskAdaptive

(***************************************************************************)
(* src/road_network.py: _sample_chunk and the two paths of                 *)
(* sample_risk_on_edges, label_safe_nodes, penalize_flooded_edges as       *)
(* functions.                                                              *)
(*                                                                         *)
(* Node coordinates are pixel coordinates of the raster (the inverse of    *)
(* its transform already applied) in quarters of a pixel: cell (row, col)  *)
(* covers col <= x < col + 1, row <= y < row + 1.  An edge midpoint is     *)
(* (u + v) / 2, kept in eighths of a pixel as u + v.                       *)
(***************************************************************************)
PARALLEL_MIN_EDGES == 500

MaxWorkers == 3
ExtraEdges == 2

TifShape == <<2, 2>>

\* the rasters of the small graphs: band[row * cols + col + 1], hundredths
TifBands ==
    { <<10, 20, 40, 70>>,
      <<float_nan, 0, safe_threshold, HIGH_RISK_ROAD_THRESHOLD>>,
      <<70, 10, 0, float_nan>> }

\* node coordinates (x, y) in quarter pixels: left of, inside and right of
\* the raster, in the left and in the right half of a cell
QuarterX == {0 - 3, 0 - 2, 1, 3, 6, 7, 9}
QuarterY == {0 - 2, 1, 7}

\* Python round(a / b) for b > 0: to the nearest integer, halves to even
py_round(a, b) ==
    LET f == a \div b
        r == a % b
    IN  IF 2 * r > b \/ (2 * r = b /\ f % 2 = 1) THEN f + 1 ELSE f

\* Variant: the index of the cell containing the coordinate
py_floor(a, b) == a \div b

\* int(round(idx)) of a pixel coordinate a / b
pixel_index(a, b) == py_round(a, b)

\* lines 78-82 / 185-189: the band value at the rounded indices, or 0.0
\* outside 0 <= row_idx < rows and 0 <= col_idx < cols; (x, y) in 1 / unit
sample_band(tif, x, y, unit) ==
    LET row_idx == pixel_index(y, unit)
        col_idx == pixel_index(x, unit)
    IN  IF 0 <= row_idx /\ row_idx < tif.shape[1] /\ 0 <= col_idx /\ col_idx < tif.shape[2]
        THEN tif.band[row_idx * tif.shape[2] + col_idx + 1]
        ELSE 0

\* edge_midpoints[(u, v, k)] = (mid_lon, mid_lat), in eighths of a pixel;
\* the edge (u, v, k) is named by its index in G.edges
midpoint(G, i) ==
    <<G.nodes[G.edges[i].u].x + G.nodes[G.edges[i].v].x,
      G.nodes[G.edges[i].u].y + G.nodes[G.edges[i].v].y>>

\* _sample_chunk((risk_tif_path, edge_midpoints)) for the edges `keys`
_sample_chunk(tif, G, keys) ==
    [i \in keys |-> sample_band(tif, midpoint(G, i)[1], midpoint(G, i)[2], 8)]

\* for (u, v, k), risk in results.items(): G.edges[u, v, k]["flood_risk"] = risk
attach(G, results) ==
    [G EXCEPT !.edges = [i \in DOMAIN G.edges |->
        IF i \in DOMAIN results
        THEN [G.edges[i] EXCEPT !.sampled = TRUE, !.flood_risk = results[i]]
        ELSE G.edges[i]]]

\* n_workers = min(os.cpu_count() or 4, 8) when None (0)
resolve_workers(n, cpu_count) ==
    IF n = 0 THEN Min(IF cpu_count = 0 THEN 4 ELSE cpu_count, 8) ELSE n

\* math.ceil(total / n_workers)
chunk_size(total, n) == (total + n - 1) \div n

\* Variant: consecutive chunks share their boundary key.
chunk_keys_overlapping(total, size, c) ==
    {i \in 1..total : (c - 1) * size < i + 1 /\ i <= c * size}

\* keys[i : i + chunk_size] of the c-th chunk, c = 1, 2, ...
chunk_keys(total, size, c) ==
    {i \in 1..total : (c - 1) * size < i /\ i <= c * size}

\* for i in range(0, total, chunk_size): the number of chunks
chunk_count(total, size) == (total + size - 1) \div size

\* label_safe_nodes(G, risk_tif_path, safe_threshold) on pixel coordinates
label_safe_nodes_at(G, tif, threshold) ==
    [G EXCEPT !.nodes = [n \in DOMAIN G.nodes |->
        LET fsi_n == sample_band(tif, G.nodes[n].x, G.nodes[n].y, 4)
        IN  [G.nodes[n] EXCEPT !.labelled = TRUE, !.fsi = fsi_n,
                               !.is_safe = float_lt(fsi_n, threshold)]]]

\* a graph of three nodes whose edges run over the node pairs in turn;
\* the k-th edge between the same two nodes has key k
sample_graph_of(pos, total) ==
    LET pairs == << <<1, 2>>, <<2, 3>>, <<3, 1>>, <<2, 1>> >>
    IN  [nodes |-> [n \in 1..3 |-> [y |-> pos[n][2], x |-> pos[n][1], labelled |-> FALSE,
                                    fsi |-> 0, is_safe |-> FALSE]],
         edges |-> [i \in 1..total |->
                      [u |-> pairs[((i - 1) % 4) + 1][1], v |-> pairs[((i - 1) % 4) + 1][2],
                       key |-> (i - 1) \div 4, length |-> 10,
                       sampled |-> FALSE, flood_risk |-> 0]]]

SampleIdle ==
    /\ sample_G = NoResult
    /\ sample_tif = NoResult
    /\ n_workers = 0
    /\ chunks = <<>>
    /\ futures = <<>>
    /\ all_results = <<>>
    /\ label_threshold = 0
    /\ sample_pc = "idle"

\* a small graph on any of the rasters, or a graph of at least
\* PARALLEL_MIN_EDGES edges on the first raster
SampleStart ==
    /\ \/ \E p1 \in QuarterX \X QuarterY, x2 \in {1, 6}, band \in TifBands, total \in 1..3 :
             /\ sample_G = sample_graph_of(<<p1, <<x2, 1>>, <<9, 7>> >>, total)
             /\ sample_tif = [shape |-> TifShape, band |-> band]
       \/ \E total \in (PARALLEL_MIN_EDGES - 1)..(PARALLEL_MIN_EDGES + ExtraEdges) :
             /\ sample_G = sample_graph_of(<< <<1, 1>>, <<6, 1>>, <<3, 5>> >>, total)
             /\ sample_tif = [shape |-> TifShape, band |-> <<10, 20, 40, 70>>]
    /\ \E n \in 0..MaxWorkers, cpu_count \in {0, 2} : n_workers = resolve_workers(n, cpu_count)
    /\ chunks = <<>>
    /\ futures = <<>>
    /\ all_results = <<>>
    /\ label_threshold \in {0, safe_threshold}
    /\ sample_pc = "start"

\* lines 109-114: the in-process path
SampleInProcess ==
    /\ sample_pc = "start"
    /\ Len(sample_G.edges) < PARALLEL_MIN_EDGES \/ n_workers <= 1
    /\ sample_G' = attach(sample_G, _sample_chunk(sample_tif, sample_G, DOMAIN sample_G.edges))
    /\ sample_pc' = "sampled"
    /\ UNCHANGED <<sample_tif, n_workers, chunks, futures, all_results, label_threshold, exceptSample>>

\* lines 117-128: split the keys into chunks and submit one task per chunk
SubmitChunks ==
    /\ sample_pc = "start"
    /\ ~(Len(sample_G.edges) < PARALLEL_MIN_EDGES \/ n_workers <= 1)
    /\ LET total == Len(sample_G.edges)
           size == chunk_size(total, n_workers)
       IN  /\ chunks' = [c \in 1..chunk_count(total, size) |-> chunk_keys(total, size, c)]
           /\ futures' = [c \in 1..chunk_count(total, size) |-> "running"]
    /\ all_results' = <<>>
    /\ sample_pc' = "parallel"
    /\ UNCHANGED <<sample_G, sample_tif, n_workers, label_threshold, exceptSample>>

\* a worker process returns from _sample_chunk: its future is finished
WorkerReturns ==
    /\ sample_pc = "parallel"
    /\ \E c \in DOMAIN futures :
          /\ futures[c] = "running"
          /\ futures' = [futures EXCEPT ![c] = "finished"]
    /\ UNCHANGED <<sample_G, sample_tif, n_workers, chunks, all_results, label_threshold, sample_pc,
                   exceptSample>>

\* for f in as_completed(futures): all_results.update(f.result())
MergeResult ==
    /\ sample_pc = "parallel"
    /\ \E c \in DOMAIN futures :
          /\ futures[c] = "finished"
          /\ futures' = [futures EXCEPT ![c] = "merged"]
          /\ all_results' = _sample_chunk(sample_tif, sample_G, chunks[c]) @@ all_results
    /\ UNCHANGED <<sample_G, sample_tif, n_workers, chunks, label_threshold, sample_pc, exceptSample>>

\* lines 132-136: every future was merged; attach the values
AttachResults ==
    /\ sample_pc = "parallel"
    /\ \A c \in DOMAIN futures : futures[c] = "merged"
    /\ sample_G' = attach(sample_G, all_results)
    /\ sample_pc' = "sampled"
    /\ UNCHANGED <<sample_tif, n_workers, chunks, futures, all_results, label_threshold, exceptSample>>

\* penalize_flooded_edges(G), before or after the sampling
CallPenalizeFloodedEdges ==
    /\ sample_pc \in {"start", "sampled"}
    /\ Len(sample_G.edges) < PARALLEL_MIN_EDGES - 1
    /\ sample_G' = penalize_flooded_edges(sample_G)
    /\ sample_pc' = "penalized"
    /\ UNCHANGED <<sample_tif, n_workers, chunks, futures, all_results, label_threshold, exceptSample>>

\* label_safe_nodes(G, risk_tif_path, safe_threshold)
CallLabelSafeNodes ==
    /\ sample_pc \in {"sampled", "penalized"}
    /\ Len(sample_G.edges) < PARALLEL_MIN_EDGES - 1
    /\ sample_G' = label_safe_nodes_at(sample_G, sample_tif, label_threshold)
    /\ sample_pc' = "labelled"
    /\ UNCHANGED <<sample_tif, n_workers, chunks, futures, all_results, label_threshold, exceptSample>>

SampleNext ==
    \/ SampleInProcess
    \/ SubmitChunks
    \/ WorkerReturns
    \/ MergeResult
    \/ AttachResults
    \/ CallPenalizeFloodedEdges
    \/ CallLabelSafeNodes

(***************************************************************************)
(* src/road_network.py: load_road_network and its module-level cache,      *)
(* called from the pipeline threads.  The cached graph is the roadVars     *)
(* variable _cached_graph; graph number i is the graph the i-th successful *)
(* fetch returned.  Latitudes are in 1e-5 degrees, radii in tenths of a    *)
(* metre; the longitude is the same in every call.                         *)
(***************************************************************************)
max_retries == 3

MaxCalls == 3

Callers == {"t1", "t2"}

CallLats == {1234561, 1234564, 1234566}
CallLon == 7700000
CallRadii == {50000, 50007}

\* _cached_key = None
NoKey == <<>>

\* key = (round(lat, 4), round(lon, 4), int(radius_m))
cache_key(lat, lon, radius_m) ==
    <<py_round(lat, 10), py_round(lon, 10), radius_m \div 10>>

\* not force and _cached_key == key and _cached_graph is not None
cache_hit(force, key, cached_key, cached_graph) ==
    ~force /\ cached_key = key /\ cached_graph # 0

\* Variant: one more attempt is made.
retry_once_more(attempt) == attempt <= max_retries

\* if attempt < max_retries: sleep and try again, else raise
retry(attempt) == attempt < max_retries

idle_call == [pc |-> "idle", key |-> NoKey, force |-> FALSE, attempt |-> 0, G |-> 0]

CacheIdle ==
    /\ _cached_key = NoKey
    /\ fetched = <<>>
    /\ load_call = [t \in {} |-> idle_call]
    /\ load_ret = [t \in {} |-> NoResult]
    /\ calls_made = 0

CacheStart ==
    /\ _cached_key = NoKey
    /\ fetched = <<>>
    /\ load_call = [t \in Callers |-> idle_call]
    /\ load_ret = [t \in Callers |-> NoResult]
    /\ calls_made = 0

\* a pipeline thread calls load_road_network(lat, lon, radius_m, force)
CallLoadRoadNetwork(t) ==
    /\ load_call[t].pc = "idle"
    /\ calls_made < MaxCalls
    /\ \E lat \in CallLats, radius_m \in CallRadii, force \in BOOLEAN :
          load_call' = [load_call EXCEPT ![t] =
              [pc |-> "check", key |-> cache_key(lat, CallLon, radius_m), force |-> force,
               attempt |-> 0, G |-> 0]]
    /\ load_ret' = [load_ret EXCEPT ![t] = NoResult]
    /\ calls_made' = calls_made + 1
    /\ UNCHANGED <<_cached_key, fetched, _cached_graph, roadRest, exceptCache>>

\* line 37: the test of the cache
CheckCache(t) ==
    /\ load_call[t].pc = "check"
    /\ load_call' = [load_call EXCEPT ![t] =
          IF cache_hit(@.force, @.key, _cached_key, _cached_graph)
          THEN [@ EXCEPT !.pc = "hit"]
          ELSE [@ EXCEPT !.pc = "fetch", !.attempt = 1]]
    /\ UNCHANGED <<_cached_key, fetched, load_ret, calls_made, _cached_graph, roadRest, exceptCache>>

\* line 39: return _cached_graph
ReturnCached(t) ==
    /\ load_call[t].pc = "hit"
    /\ load_ret' = [load_ret EXCEPT ![t] = [kind |-> "cached", G |-> _cached_graph]]
    /\ load_call' = [load_call EXCEPT ![t] = [@ EXCEPT !.pc = "idle"]]
    /\ UNCHANGED <<_cached_key, fetched, calls_made, _cached_graph, roadRest, exceptCache>>

\* lines 43-49: ox.graph_from_point returns a graph
FetchSucceeds(t) ==
    /\ load_call[t].pc = "fetch"
    /\ fetched' = Append(fetched, load_call[t].key)
    /\ load_call' = [load_call EXCEPT ![t] = [@ EXCEPT !.pc = "store_graph", !.G = Len(fetched) + 1]]
    /\ UNCHANGED <<_cached_key, load_ret, calls_made, _cached_graph, roadRest, exceptCache>>

\* lines 54-62: ox.graph_from_point raises
FetchFails(t) ==
    /\ load_call[t].pc = "fetch"
    /\ IF retry(load_call[t].attempt)
       THEN /\ load_call' = [load_call EXCEPT ![t] = [@ EXCEPT !.attempt = @ + 1]]
            /\ UNCHANGED load_ret
       ELSE /\ load_call' = [load_call EXCEPT ![t] = [@ EXCEPT !.pc = "idle"]]
            /\ load_ret' = [load_ret EXCEPT ![t] = [kind |-> "raised", G |-> 0]]
    /\ UNCHANGED <<_cached_key, fetched, calls_made, _cached_graph, roadRest, exceptCache>>

\* line 51: _cached_graph = G
StoreGraph(t) ==
    /\ load_call[t].pc = "store_graph"
    /\ _cached_graph' = load_call[t].G
    /\ load_call' = [load_call EXCEPT ![t] = [@ EXCEPT !.pc = "store_key"]]
    /\ UNCHANGED <<_cached_key, fetched, load_ret, calls_made, roadRest, exceptCache>>

\* lines 52-53: _cached_key = key; return G
StoreKey(t) ==
    /\ load_call[t].pc = "store_key"
    /\ _cached_key' = load_call[t].key
    /\ load_ret' = [load_ret EXCEPT ![t] = [kind |-> "fetched", G |-> load_call[t].G]]
    /\ load_call' = [load_call EXCEPT ![t] = [@ EXCEPT !.pc = "idle"]]
    /\ UNCHANGED <<fetched, calls_made, _cached_graph, roadRest, exceptCache>>

CacheNext ==
    \E t \in Callers :
        \/ CallLoadRoadNetwork(t)
        \/ CheckCache(t)
        \/ ReturnCached(t)
        \/ FetchSucceeds(t)
        \/ FetchFails(t)
        \/ StoreGraph(t)
        \/ StoreKey(t)

(***************************************************************************)
(* app.py: what two _run_pipeline threads share.  export_geotiff writes    *)
(* the FSI raster to OUTPUT_DIR/RISK_GEOTIFF, one path for every job;      *)
(* load_road_network hands out the cached graph object.  A raster is named *)
(* by the job that produced it; load_road_network is taken as one step.    *)
(***************************************************************************)
RunAreas == {cache_key(lat, CallLon, 50000) : lat \in {1234561, 1234566}}

\* the statements of _run_pipeline that touch the raster file or the graph
RunSteps == <<"export_geotiff", "load_road_network", "sample_risk_on_edges",
              "penalize_flooded_edges", "label_safe_nodes", "compute_risk_statistics">>

no_reads == [sample_risk_on_edges |-> None, label_safe_nodes |-> None,
             compute_risk_statistics |-> None]

\* Variant: every job exports to a file of its own.
export_path_per_job(j) == j

\* out_path = os.path.join(config.OUTPUT_DIR, filename or config.RISK_GEOTIFF)
export_path(j) == "output/flood_risk.tif"

ShareIdle ==
    /\ files = <<>>
    /\ road_cache = NoResult
    /\ graph_objects = <<>>
    /\ run_pc = <<>>
    /\ run_locals = <<>>

ShareStart ==
    /\ files = <<>>
    /\ road_cache = [key |-> NoKey, graph |-> 0]
    /\ graph_objects = <<>>
    /\ run_pc = [j \in JobIds |-> "idle"]
    /\ run_locals = [j \in JobIds |-> [area |-> NoKey, risk_tif |-> None, road_graph |-> 0,
                                       road_graph_safe |-> 0, reads |-> no_reads]]

\* POST /api/analyze starts the thread of job j for an area
StartJob(j) ==
    /\ run_pc[j] = "idle"
    /\ \E area \in RunAreas :
          run_locals' = [run_locals EXCEPT ![j].area = area]
    /\ run_pc' = [run_pc EXCEPT ![j] = RunSteps[1]]
    /\ UNCHANGED <<files, road_cache, graph_objects, exceptShare>>

\* line 307: risk_tif = export_geotiff(fsi, aoi, config.RISK_GEOTIFF)
ExportGeotiff(j) ==
    /\ run_pc[j] = "export_geotiff"
    /\ files' = (export_path(j) :> j) @@ files
    /\ run_locals' = [run_locals EXCEPT ![j].risk_tif = export_path(j)]
    /\ run_pc' = [run_pc EXCEPT ![j] = "load_road_network"]
    /\ UNCHANGED <<road_cache, graph_objects, exceptShare>>

\* line 332: road_graph = load_road_network(lat, lon, radius_km * 1000);
\* when it raises, the except clause of phase 6 leads on to phase 7
LoadGraph(j) ==
    /\ run_pc[j] = "load_road_network"
    /\ IF cache_hit(FALSE, run_locals[j].area, road_cache.key, road_cache.graph)
       THEN /\ run_locals' = [run_locals EXCEPT ![j].road_graph = road_cache.graph]
            /\ run_pc' = [run_pc EXCEPT ![j] = "sample_risk_on_edges"]
            /\ UNCHANGED <<road_cache, graph_objects>>
       ELSE \E downloaded \in BOOLEAN :
               IF downloaded
               THEN /\ graph_objects' = Append(graph_objects,
                                               [area |-> run_locals[j].area, flood_risk |-> None])
                    /\ road_cache' = [key |-> run_locals[j].area, graph |-> Len(graph_objects) + 1]
                    /\ run_locals' = [run_locals EXCEPT ![j].road_graph = Len(graph_objects) + 1]
                    /\ run_pc' = [run_pc EXCEPT ![j] = "sample_risk_on_edges"]
               ELSE /\ run_pc' = [run_pc EXCEPT ![j] = "compute_risk_statistics"]
                    /\ UNCHANGED <<road_cache, graph_objects, run_locals>>
    /\ UNCHANGED <<files, exceptShare>>

\* line 333: road_graph = sample_risk_on_edges(road_graph, risk_tif): reads
\* the file, writes flood_risk on the edges of the graph object
SampleOntoGraph(j) ==
    /\ run_pc[j] = "sample_risk_on_edges"
    /\ run_locals' = [run_locals EXCEPT ![j].reads.sample_risk_on_edges = files[run_locals[j].risk_tif]]
    /\ graph_objects' = [graph_objects EXCEPT ![run_locals[j].road_graph].flood_risk =
                            files[run_locals[j].risk_tif]]
    /\ run_pc' = [run_pc EXCEPT ![j] = "penalize_flooded_edges"]
    /\ UNCHANGED <<files, road_cache, exceptShare>>

\* line 340: road_graph_safe = penalize_flooded_edges(copy.deepcopy(road_graph))
PenalizeCopy(j) ==
    /\ run_pc[j] = "penalize_flooded_edges"
    /\ graph_objects' = Append(graph_objects, graph_objects[run_locals[j].road_graph])
    /\ run_locals' = [run_locals EXCEPT ![j].road_graph_safe = Len(graph_objects) + 1]
    /\ run_pc' = [run_pc EXCEPT ![j] = "label_safe_nodes"]
    /\ UNCHANGED <<files, road_cache, exceptShare>>

\* line 341: road_graph_safe = label_safe_nodes(road_graph_safe, risk_tif)
LabelFromFile(j) ==
    /\ run_pc[j] = "label_safe_nodes"
    /\ run_locals' = [run_locals EXCEPT ![j].reads.label_safe_nodes = files[run_locals[j].risk_tif]]
    /\ run_pc' = [run_pc EXCEPT ![j] = "compute_risk_statistics"]
    /\ UNCHANGED <<files, road_cache, graph_objects, exceptShare>>

\* line 354: risk_stats = compute_risk_statistics(risk_tif)
StatisticsFromFile(j) ==
    /\ run_pc[j] = "compute_risk_statistics"
    /\ run_locals' = [run_locals EXCEPT ![j].reads.compute_risk_statistics = files[run_locals[j].risk_tif]]
    /\ run_pc' = [run_pc EXCEPT ![j] = "end"]
    /\ UNCHANGED <<files, road_cache, graph_objects, exceptShare>>

ShareNext ==
    \E j \in JobIds :
        \/ StartJob(j)
        \/ ExportGeotiff(j)
        \/ LoadGraph(j)
        \/ SampleOntoGraph(j)
        \/ PenalizeCopy(j)
        \/ LabelFromFile(j)
        \/ StatisticsFromFile(j)

(***************************************************************************)
(* Specifications                                                          *)
(***************************************************************************)
AhpInit == AhpStart /\ RainIdle /\ FlowIdle /\ RoadIdle /\ JobsIdle /\ HydroIdle /\ ClassIdle /\ SampleIdle /\ CacheIdle /\ ShareIdle
SpecAhp == AhpInit /\ [][AhpNext]_vars

RainInit == RainStart /\ AhpIdle /\ FlowIdle /\ RoadIdle /\ JobsIdle /\ HydroIdle /\ ClassIdle /\ SampleIdle /\ CacheIdle /\ ShareIdle
SpecRain == RainInit /\ [][RainNext]_vars

FlowInit == FlowStart /\ AhpIdle /\ RainIdle /\ RoadIdle /\ JobsIdle /\ HydroIdle /\ ClassIdle /\ SampleIdle /\ CacheIdle /\ ShareIdle
SpecFlow == FlowInit /\ [][FlowNext]_vars

RoadInit == RoadStart /\ AhpIdle /\ RainIdle /\ FlowIdle /\ JobsIdle /\ HydroIdle /\ ClassIdle /\ SampleIdle /\ CacheIdle /\ ShareIdle
SpecRoad == RoadInit /\ [][RoadNext]_vars

AstarInit == AstarStart /\ AhpIdle /\ RainIdle /\ FlowIdle /\ JobsIdle /\ HydroIdle /\ ClassIdle /\ SampleIdle /\ CacheIdle /\ ShareIdle
SpecAstar == AstarInit /\ [][AstarNext]_vars
\* the loop runs in one thread that is never suspended for good
SpecAstarLive == SpecAstar /\ WF_vars(AstarNext)

CacheInit ==
    CacheStart /\ AhpIdle /\ RainIdle /\ FlowIdle /\ RoadIdle /\ JobsIdle /\ HydroIdle /\ ClassIdle /\ SampleIdle /\ ShareIdle
SpecCache == CacheInit /\ [][CacheNext]_vars

ShareInit ==
    ShareStart /\ AhpIdle /\ RainIdle /\ FlowIdle /\ RoadIdle /\ JobsIdle /\ HydroIdle /\ ClassIdle /\ SampleIdle /\ CacheIdle
SpecShare == ShareInit /\ [][ShareNext]_vars

JobsInit == JobsStart /\ AhpIdle /\ RainIdle /\ FlowIdle /\ RoadIdle /\ HydroIdle /\ ClassIdle /\ SampleIdle /\ CacheIdle /\ ShareIdle
SpecJobs == JobsInit /\ [][JobsNext]_vars

HydroInit == HydroStart /\ AhpIdle /\ RainIdle /\ FlowIdle /\ RoadIdle /\ JobsIdle /\ ClassIdle /\ SampleIdle /\ CacheIdle /\ ShareIdle
SpecHydro == HydroInit /\ [][HydroNext]_vars

ClassInit ==
    ClassStart /\ AhpIdle /\ RainIdle /\ FlowIdle /\ RoadIdle /\ JobsIdle /\ HydroIdle /\ SampleIdle /\ CacheIdle /\ ShareIdle
SpecClass == ClassInit /\ [][ClassNext]_vars

SampleInit ==
    SampleStart /\ AhpIdle /\ RainIdle /\ FlowIdle /\ RoadIdle /\ JobsIdle /\ HydroIdle /\ ClassIdle /\ CacheIdle /\ ShareIdle
SpecSample == SampleInit /\ [][SampleNext]_vars

(***************************************************************************)
(* Claims on src/ahp.py                                                    *)
(***************************************************************************)
\* C5: get_validated_weights never returns weights for a matrix whose
\* consistency ratio is >= 0.1 (0.1 itself included): whenever
\* compute_ahp_weights reported consistent = false, or the ratio is at
\* least 0.1, the call ended in the validation error.
C5_InconsistentMatrixRaises ==
    validated # NoResult =>
        /\ (~ahp.consistent => validated.kind = "ValueError")
        /\ (ahp.cr = "atleast" => validated.kind = "ValueError")
        /\ (validated.kind = "weights" => ahp.cr = "below")

C5_Witness ==
    /\ validated.kind = "ValueError"
    /\ ahp.cr = "atleast"
    /\ Len(PAIRWISE_MATRIX) = 3

\* C6: the weights returned by get_validated_weights sum to 1.0 within
\* 1e-6.  The weights are multiples of 1e-4, so the sum is within 1e-6
\* of 1.0 exactly when the sum of the 1e-4 units is 10000.
C6_ValidatedWeightsSumToOne ==
    validated.kind = "weights" => SumSeq(validated.weights) = 10000

\* C16: for a pairwise matrix of size n = 1 or n = 2 compute_ahp_weights
\* returns CI = 0 (a defined number, no division by zero), CR = 0 and
\* consistent = true.
C16_SmallMatrixCiZero ==
    (ahp # NoResult /\ Len(PAIRWISE_MATRIX) \in {1, 2}) =>
        /\ ~ahp.ci_nan
        /\ ahp.ci.lo = 0 /\ ahp.ci.hi = 0
        /\ ahp.ri = 0
        /\ ahp.cr = "below"
        /\ ahp.consistent

\* for n = 2 the claim holds, and for n = 1 all of it but the CI
SmallMatrixConsistent ==
    (ahp # NoResult /\ Len(PAIRWISE_MATRIX) \in {1, 2}) =>
        /\ Len(PAIRWISE_MATRIX) = 2 => (~ahp.ci_nan /\ ahp.ci.lo = 0 /\ ahp.ci.hi = 0)
        /\ ahp.ri = 0
        /\ ahp.cr = "below"
        /\ ahp.consistent

(***************************************************************************)
(* Claims on src/flood_model.py                                            *)
(***************************************************************************)
\* C8: the water mask forces FSI to 1.0 at every water cell exactly when
\* rain_mm >= 0.3 x the scenario's rain_max (the value the rainfall factor
\* was computed with); below it the raster is unchanged, and cells outside
\* the mask never change.
C8_WaterForcedAtScenarioThreshold ==
    flood_risk # NoResult =>
        LET rm == effective_rain_max(rain_max)
        IN  \A c \in Cells :
               IF water_mask[c] > 0 /\ 10 * rainfall_mm >= 3 * rm
               THEN flood_risk.cells[c] = One(rm)
               ELSE flood_risk.cells[c] = fsi.cells[c]

\* C9: for every rain_mm, negative and above rain_max included, RainFactor
\* lies in [0,1], is 1.0 for rain_mm >= rain_max, and the FSI of every cell
\* lies in [0,1].
C9_RainFactorAndFsiInUnitInterval ==
    fsi # NoResult =>
        LET rm == effective_rain_max(rain_max)
        IN  /\ rain_factor.kind = "real"
            /\ 0 <= rain_factor.num /\ rain_factor.num <= rain_factor.den
            /\ (rainfall_mm >= rm => rain_factor.num = rain_factor.den)
            /\ fsi.kind = "raster"
            /\ \A c \in Cells : 0 <= fsi.cells[c] /\ fsi.cells[c] <= One(rm)

\* The FSI raster of apply_rainfall_multiplier followed by apply_water_mask
\* for rainfall `rain`, on the state's base risk, mask and rain_max.
FinalFsi(rain) ==
    LET rm == effective_rain_max(rain_max)
        f  == scaled_fsi(base_risk, rain_factor_of(rain_ratio(rain, rm)), One(rm))
    IN  IF f.kind = "raster" THEN masked_fsi(f, water_mask, rain, One(rm)) ELSE f

\* C10: for a fixed BaseRisk raster and water mask the final FSI of every
\* cell is non-decreasing in rain_mm: every scenario yields an FSI raster,
\* and a scenario with more rain yields at least the FSI of this one.
C10_FsiMonotoneInRain ==
    fsi # NoResult =>
        /\ fsi.kind = "raster"
        /\ flood_risk # NoResult =>
              \A r2 \in RainValues :
                 r2 >= rainfall_mm =>
                    \A c \in Cells : flood_risk.cells[c] <= FinalFsi(r2).cells[c]

\* The same restricted to the scenarios without negative rainfall.
FsiMonotoneForNonNegativeRain ==
    (flood_risk # NoResult /\ rainfall_mm >= 0) =>
        \A r2 \in RainValues :
           r2 >= rainfall_mm =>
              \A c \in Cells : flood_risk.cells[c] <= FinalFsi(r2).cells[c]

\* C8 with the default rain_max (the only way app.py and main.py call it).
WaterForcedAtDefaultThreshold ==
    rain_max = 0 => C8_WaterForcedAtScenarioThreshold

(***************************************************************************)
(* Claims on src/road_network.py, src/evacuation.py and phase 6            *)
(***************************************************************************)
PostPenalize == road_pc \in {"label", "route", "astar", "done"}

\* the risk-sampled graph as it was when penalization began
SampledGraph == sample_risk_on_edges(graph_from_point(osm_graph), risk_tif)

SameEdge(e, o) == e.u = o.u /\ e.v = o.v /\ e.key = o.key

C4_PenalizationOnPrivateCopy ==
    PostPenalize =>
        /\ graphs[road_graph] = SampledGraph
        /\ graphs[_cached_graph] = SampledGraph
        /\ road_graph_safe \notin {road_graph, _cached_graph}

\* the pipeline has run to its end and penalization did change the copy
C4_Witness ==
    /\ road_pc = "done"
    /\ Len(graphs[road_graph_safe].edges) < Len(graphs[road_graph].edges)
    /\ \E j \in DOMAIN graphs[road_graph_safe].edges, i \in DOMAIN graphs[road_graph].edges :
          /\ SameEdge(graphs[road_graph_safe].edges[j], graphs[road_graph].edges[i])
          /\ graphs[road_graph_safe].edges[j].length > graphs[road_graph].edges[i].length

\* nodes reachable from a set of nodes along directed edges
RECURSIVE Reachable(_, _)
Reachable(E, S) ==
    LET next == S \cup {E[i].v : i \in {j \in DOMAIN E : E[j].u \in S}}
    IN  IF next = S THEN S ELSE Reachable(E, next)

\* C1: find_escape_route returns (None, None) if and only if no node marked
\* is_safe is reachable from the snapped start node along directed edges of
\* the given graph; whenever some safe node is reachable it returns a route.
C1_AbsentIffNoSafeNodeReachable ==
    road_pc = "done" =>
        LET G == graphs[road_graph_safe]
            reachableSafe == Reachable(G.edges, {start_node}) \cap safe_nodes(G)
        IN  /\ route = absent <=> reachableSafe = {}
            /\ reachableSafe # {} =>
                  /\ route.kind = "route"
                  /\ route.path[1] = start_node
                  /\ route.path[Len(route.path)] \in reachableSafe

\* safe nodes exist, the search expanded the start and another node, and no
\* safe node could be reached
C1_Witness ==
    /\ road_pc = "done"
    /\ route = absent
    /\ safe_nodes(graphs[road_graph_safe]) # {}
    /\ Cardinality(visited) >= 2

\* directed walks of the graph from node s with at most as many nodes as the graph has
Walks(E, s) ==
    {p \in UNION {[1..k -> Nodes] : k \in 1..Cardinality(Nodes)} :
        /\ p[1] = s
        /\ \A i \in 1..(Len(p) - 1) : \E j \in DOMAIN E : E[j].u = p[i] /\ E[j].v = p[i + 1]}

\* length of the shortest edge a -> b
Hop(E, a, b) ==
    CHOOSE l \in {E[j].length : j \in {k \in DOMAIN E : E[k].u = a /\ E[k].v = b}} :
        \A j \in DOMAIN E : (E[j].u = a /\ E[j].v = b) => l <= E[j].length

RECURSIVE WalkLength(_, _)
WalkLength(E, p) ==
    IF Len(p) <= 1 THEN 0
    ELSE Hop(E, p[1], p[2]) + WalkLength(E, Tail(p))

\* C2: on a penalized graph derived from a graph in which every edge is at
\* least as long as the haversine distance between its end nodes, the route
\* returned by find_escape_route has the minimum total penalized length
\* among all directed paths from the start node to any is_safe node, and the
\* heuristic never exceeds the remaining distance to a safe node.
C2_RouteHasMinimumPenalizedLength ==
    (/\ road_pc = "done"
     /\ route.kind = "route"
     /\ \A i \in DOMAIN osm_graph : osm_graph[i].length >= _haversine_m(osm_graph[i].u, osm_graph[i].v))
    =>
        LET G == graphs[road_graph_safe]
            safe == safe_nodes(G)
        IN  /\ route.path \in Walks(G.edges, start_node)
            /\ route.path[Len(route.path)] \in safe
            /\ route.dist = WalkLength(G.edges, route.path)
            /\ \A p \in Walks(G.edges, start_node) :
                  p[Len(p)] \in safe => WalkLength(G.edges, route.path) <= WalkLength(G.edges, p)
            /\ \A n \in Nodes : \A p \in Walks(G.edges, n) :
                  p[Len(p)] \in safe => heuristic(safe, n) <= WalkLength(G.edges, p)

\* the route takes two edges although a single penalized edge leads from
\* the start straight to a safe node
C2_Witness ==
    /\ road_pc = "done"
    /\ route.kind = "route"
    /\ Len(route.path) = 3
    /\ \E j \in DOMAIN graphs[road_graph_safe].edges :
          /\ graphs[road_graph_safe].edges[j].u = start_node
          /\ graphs[road_graph_safe].edges[j].v \in safe_nodes(graphs[road_graph_safe])
          /\ graphs[road_graph_safe].edges[j].flood_risk > 0
          /\ graphs[road_graph_safe].edges[j].length > route.dist


\* C11: when the start snaps to a node that is itself is_safe,
\* find_escape_route returns at once a route of exactly one waypoint, that
\* node's coordinates, with a descriptor carrying the node's own lat, lon
\* and fsi, and traverses no edge, whatever the rest of the graph is.
C11_SafeStartTrivialRoute ==
    (road_pc = "done" /\ start_node \in safe_nodes(graphs[road_graph_safe])) =>
        /\ route.kind = "route"
        /\ route.route = << <<NodeY[start_node], NodeX[start_node]>> >>
        /\ route.dest = [lat |-> NodeY[start_node], lon |-> NodeX[start_node],
                         fsi |-> risk_tif.node[start_node]]
        /\ route.dist = 0
        /\ open_set = {} /\ visited = {} /\ g_scores = <<>> /\ came_from = <<>>

\* a safe start with an edge leading out of it to another safe node
C11_Witness ==
    /\ road_pc = "done"
    /\ start_node \in safe_nodes(graphs[road_graph_safe])
    /\ \E j \in DOMAIN graphs[road_graph_safe].edges :
          /\ graphs[road_graph_safe].edges[j].u = start_node
          /\ graphs[road_graph_safe].edges[j].v \in safe_nodes(graphs[road_graph_safe])

\* C20: a route that find_escape_route returns is a directed path of the
\* graph it searched: it starts at the snapped start node, each consecutive
\* pair of waypoints is joined by an edge in that direction, no node
\* repeats, the waypoints are the nodes' coordinates, the last one is an
\* is_safe node whose lat, lon and fsi are the destination descriptor, and
\* no earlier waypoint is is_safe.
C20_RouteIsDirectedPathToFirstSafeNode ==
    (road_pc = "done" /\ route.kind = "route") =>
        LET G == graphs[road_graph_safe]
            p == route.path
            last == p[Len(p)]
        IN  /\ Len(p) >= 1
            /\ p[1] = start_node
            /\ \A i \in 1..(Len(p) - 1) :
                  \E j \in DOMAIN G.edges : G.edges[j].u = p[i] /\ G.edges[j].v = p[i + 1]
            /\ \A i, k \in DOMAIN p : i # k => p[i] # p[k]
            /\ route.route = [i \in DOMAIN p |-> <<G.nodes[p[i]].y, G.nodes[p[i]].x>>]
            /\ last \in safe_nodes(G)
            /\ route.dest = [lat |-> G.nodes[last].y, lon |-> G.nodes[last].x,
                             fsi |-> G.nodes[last].fsi]
            /\ \A i \in 1..(Len(p) - 1) : p[i] \notin safe_nodes(G)

\* a route of three waypoints in a graph that also holds an edge against
\* the direction of travel
C20_Witness ==
    /\ road_pc = "done"
    /\ route.kind = "route"
    /\ Len(route.path) = 3
    /\ \E j \in DOMAIN graphs[road_graph_safe].edges :
          /\ graphs[road_graph_safe].edges[j].u = route.path[2]
          /\ graphs[road_graph_safe].edges[j].v = route.path[1]

(***************************************************************************)
(* Claims on the normalization steps and on compute_river_proximity        *)
(***************************************************************************)
Normalizations == {"normalize_flow_accumulation", "normalize_elevation", "normalize_slope"}

\* the input of the min-max step is degenerate: every value is the same
DegenerateInput ==
    \/ hydro_fn \in Normalizations /\ MinSeq(hydro_in) = MaxSeq(hydro_in)
    \/ /\ hydro_fn = "compute_river_proximity"
       /\ ~hydro_in.gdf_empty
       /\ hydro_in.water = GridCells(hydro_out.shape)

OutputValues ==
    IF hydro_fn \in Normalizations
    THEN {hydro_out.values[i] : i \in DOMAIN hydro_out.values}
    ELSE {hydro_out.river_factor[cell] : cell \in DOMAIN hydro_out.river_factor}

\* C13: every numeric normalization step (flow accumulation, river
\* proximity, elevation and slope) maps a degenerate all-equal input
\* (max = min) to an all-zero output and never divides by zero.
C13_DegenerateInputGivesZero ==
    (hydro_out # NoResult /\ DegenerateInput) =>
        /\ \A v \in OutputValues : IsZero(v)
        /\ hydro_fn \in Normalizations => ~hydro_out.divided_by_zero

\* normalize_flow_accumulation alone does what the claim says
FlowNormalizationGuarded ==
    (hydro_out # NoResult /\ hydro_fn = "normalize_flow_accumulation") =>
        /\ ~hydro_out.divided_by_zero
        /\ MinSeq(hydro_in) = MaxSeq(hydro_in) => \A v \in OutputValues : IsZero(v)
        /\ \A v \in OutputValues : InUnitInterval(v)

\* v <= w for two values of one raster
Leq(v, w) ==
    IF v.kind = "sqrt" /\ w.kind = "sqrt" THEN v.n * w.d >= w.n * v.d
    ELSE IF v.kind = "num" /\ w.kind = "num" THEN v.n * w.d <= w.n * v.d
    ELSE IsZero(v) \/ IsOne(w)

\* squared distance from a cell to the nearest cell of the water mask
ToWater(cell) ==
    CHOOSE d \in {SqDist(cell, w) : w \in hydro_in.water} :
        \A w \in hydro_in.water : d <= SqDist(cell, w)

RiverComputed ==
    /\ hydro_fn = "compute_river_proximity"
    /\ hydro_out # NoResult
    /\ hydro_in.water # {}

Farthest ==
    {cell \in GridCells(hydro_out.shape) :
        \A other \in GridCells(hydro_out.shape) : ToWater(other) <= ToWater(cell)}

\* what C14 says of every grid with a water cell, the farthest cells apart
RiverFactorOrdered ==
    /\ hydro_out.kind = "ok"
    /\ \A cell \in hydro_in.water :
          hydro_out.water_mask[cell] = 1 /\ IsOne(hydro_out.river_factor[cell])
    /\ \A cell \in GridCells(hydro_out.shape) : InUnitInterval(hydro_out.river_factor[cell])
    /\ \A a \in GridCells(hydro_out.shape), b \in GridCells(hydro_out.shape) :
          ToWater(a) <= ToWater(b) => Leq(hydro_out.river_factor[b], hydro_out.river_factor[a])

C15_NoWaterGivesZeroRasters ==
    (hydro_fn = "compute_river_proximity" /\ hydro_out # NoResult /\ hydro_in.gdf_empty) =>
        LET width == IF hydro_in.extent[1] < 2 THEN 1 ELSE hydro_in.extent[1] \div 2
            height == IF hydro_in.extent[2] < 2 THEN 1 ELSE hydro_in.extent[2] \div 2
            cells == (0..(height - 1)) \X (0..(width - 1))
        IN  /\ hydro_out.kind = "ok"
            /\ hydro_out.shape = <<height, width>>
            /\ DOMAIN hydro_out.river_factor = cells
            /\ DOMAIN hydro_out.water_mask = cells
            /\ cells # {}
            /\ \A cell \in cells :
                  IsZero(hydro_out.river_factor[cell]) /\ hydro_out.water_mask[cell] = 0

\* no water geometries, bounds narrower than one cell and two cells high
C15_Witness ==
    /\ hydro_fn = "compute_river_proximity"
    /\ hydro_out # NoResult
    /\ hydro_in.gdf_empty
    /\ hydro_in.extent[1] < 2
    /\ hydro_out.shape = <<2, 1>>

(***************************************************************************)
(* Claims on the pipeline runs of app.py and main.py                       *)
(***************************************************************************)
\* a web job whose road stage raised is never failed by that exception: if
\* it ends in status "error" the exception came from another phase, and
\* otherwise it is "done" with risk statistics and no evacuation route
WebRoadFailureNotFatal ==
    \A j \in DOMAIN jobs :
        (job_pc[j] = "end" /\ job_locals[j].road_failed # None) =>
            \/ jobs[j].status = "error" /\ jobs[j].error = "phase7"
            \/ /\ jobs[j].status = "done"
               /\ jobs[j].result.risk_stats # None
               /\ jobs[j].result.evacuation_route = None
               /\ jobs[j].result.escape_destination = None

\* C12: a failure anywhere in the road / escape-routing stage is never
\* fatal to the pipeline: the web job still reaches status "done" with risk
\* statistics and an absent evacuation route, and a CLI run still ends with
\* its report and risk statistics.
C12_RoadStageFailureNeverFatal ==
    /\ WebRoadFailureNotFatal
    /\ cli_pc = "exited" => (cli_out.kind = "report" /\ cli_out.risk_stats # None)

(***************************************************************************)
(* Claims on src/hydrology.py                                              *)
(***************************************************************************)
\* No two cells of the DEM have the same elevation.
NoTies == \A a, b \in CellsOf(dem_shape) : a # b => dem_array[a] # dem_array[b]

\* Sum of the accumulation values over a set of cells.
RECURSIVE AccumSum(_)
AccumSum(S) ==
    IF S = {} THEN 0
    ELSE LET c == CHOOSE x \in S : TRUE IN flow_accum[c] + AccumSum(S \ {c})

Sinks == {c \in CellsOf(dem_shape) : flow_dir[c] < 0}

\* C7 as stated: for a DEM without ties, after compute_flow_accumulation
\* the accumulation values of all cells sum to the number of cells.
C7_AllCellsSumToCellCount ==
    (flow_pc = "done" /\ NoTies) =>
        AccumSum(CellsOf(dem_shape)) = Cardinality(CellsOf(dem_shape))

\* C7 amended: for a DEM without ties, after compute_flow_accumulation the
\* accumulation values of the sink cells (the cells with no flow direction)
\* sum to the number of cells: every cell's unit is counted once at the
\* sink its downstream path ends in.
C7_SinksSumToCellCount ==
    (flow_pc = "done" /\ NoTies) =>
        AccumSum(Sinks) = Cardinality(CellsOf(dem_shape))

\* A tie-free DEM with a chain: some cell received flow that had itself
\* been received.
C7_Witness ==
    /\ flow_pc = "done"
    /\ NoTies
    /\ dem_shape # <<1, 1>>
    /\ \E c \in CellsOf(dem_shape) :
          /\ flow_dir[c] >= 0
          /\ flow_accum[c] >= 2
          /\ flow_accum[neighbor_cell(dem_shape, c, flow_dir[c])] >= 3

\* the cell `cell` drains to, or -1 for a sink
downstream(cell) ==
    IF flow_dir[cell] < 0 THEN 0 - 1 ELSE neighbor_cell(dem_shape, cell, flow_dir[cell])

\* the cell reached from `cell` after k steps along the flow directions
RECURSIVE Follow(_, _)
Follow(cell, k) ==
    IF k = 0 \/ cell < 0 THEN cell ELSE Follow(downstream(cell), k - 1)

\* the cells on the downstream path of `cell`
DownstreamPath(cell) ==
    {Follow(cell, k) : k \in 1..Cardinality(CellsOf(dem_shape))} \ {0 - 1}

\* the cells whose downstream path passes through `cell`
Upstream(cell) == {x \in CellsOf(dem_shape) \ {cell} : cell \in DownstreamPath(x)}

DirectionsComplete ==
    \A c \in CellsOf(dem_shape) :
        flow_dir[c] = steepest_descent(dem_array, dem_shape, c)

\* C18: for any DEM, ties and flats included: the flow-direction pass is
\* complete for the whole grid before the first accumulation step; a cell
\* visited by the accumulation pass has all its upstream cells visited
\* already; and each cell's final accumulation is 1 plus the number of
\* distinct cells upstream of it.
C18_UpstreamFirstAndCounted ==
    /\ flow_pc = "start" => (processed = {} /\ \A c \in CellsOf(dem_shape) : flow_accum[c] = 1)
    /\ flow_pc # "start" => DirectionsComplete
    /\ \A c \in processed : Upstream(c) \subseteq processed
    /\ flow_pc = "done" =>
          \A c \in CellsOf(dem_shape) : flow_accum[c] = 1 + Cardinality(Upstream(c))

\* a DEM with a tie and a flat pair, whose lowest cell collects the flow of
\* a cell two steps upstream
C18_Witness ==
    /\ flow_pc = "done"
    /\ ~NoTies
    /\ \E a, b \in CellsOf(dem_shape) :
          /\ a # b /\ dem_array[a] = dem_array[b]
          /\ \E idx \in 0..7 : neighbor_cell(dem_shape, a, idx) = b
    /\ \E c \in CellsOf(dem_shape) :
          /\ Cardinality(Upstream(c)) >= 2
          /\ \E x \in Upstream(c) : downstream(x) # c

\* the in-grid neighbours of `cell` that are strictly lower, by direction
LowerDirections(cell) ==
    {idx \in 0..7 : /\ neighbor_cell(dem_shape, cell, idx) >= 0
                     /\ dem_array[neighbor_cell(dem_shape, cell, idx)] < dem_array[cell]}

Drop(cell, idx) == dem_array[cell] - dem_array[neighbor_cell(dem_shape, cell, idx)]

\* C19: once the directions are computed, a cell's direction is 'none' (-1)
\* exactly when no in-grid 8-neighbour is strictly lower, and otherwise is
\* the first direction, in neighbour order, among those with the largest
\* strictly positive drop; so each step along the flow directions stays in
\* the grid and strictly lowers the elevation, no cell is on its own
\* downstream path, and every downstream path ends at a sink.
C19_SteepestStrictDescent ==
    flow_pc # "start" =>
        \A c \in CellsOf(dem_shape) :
            /\ flow_dir[c] = 0 - 1 <=> LowerDirections(c) = {}
            /\ flow_dir[c] # 0 - 1 =>
                  /\ flow_dir[c] \in LowerDirections(c)
                  /\ \A j \in LowerDirections(c) :
                        \/ Drop(c, j) < Drop(c, flow_dir[c])
                        \/ (Drop(c, j) = Drop(c, flow_dir[c]) /\ flow_dir[c] <= j)
                  /\ downstream(c) \in CellsOf(dem_shape)
                  /\ dem_array[downstream(c)] < dem_array[c]
            /\ c \notin DownstreamPath(c)
            /\ \E k \in 0..(Cardinality(CellsOf(dem_shape)) - 1) :
                  /\ Follow(c, k) \in Sinks

\* a cell with two lower neighbours of equal, largest drop and a third,
\* smaller drop, draining along a path of two steps
C19_Witness ==
    /\ flow_pc # "start"
    /\ \E c \in CellsOf(dem_shape) :
          /\ \E i, j \in LowerDirections(c) :
                /\ i # j
                /\ Drop(c, i) = Drop(c, j)
                /\ Drop(c, i) = Drop(c, flow_dir[c])
          /\ \E j \in LowerDirections(c) : Drop(c, j) < Drop(c, flow_dir[c])
          /\ flow_dir[downstream(c)] >= 0

(***************************************************************************)
(* Claims about the fixed-threshold classification                         *)
(***************************************************************************)
Classified == risk_classified # NoResult /\ risk_stats # NoResult

ClassOf(i) == risk_classified.risk_class[i]

CellsInClass(c) == {i \in DOMAIN fsi_band : ClassOf(i) = c}

\* C17: under the fixed thresholds every FSI cell gets exactly one of the
\* classes 1, 2, 3: Low iff FSI <= 0.3, Medium iff 0.3 < FSI <= 0.6, High
\* iff FSI > 0.6; the class never decreases as FSI grows; and the pixel
\* counts of compute_risk_statistics are the sizes of these classes.
C17_FixedClassesAndStatisticsAgree ==
    Classified =>
        /\ \A i \in DOMAIN fsi_band :
              /\ ClassOf(i) \in {1, 2, 3}
              /\ ClassOf(i) = 1 <=> fsi_band[i] <= LOW_MAX
              /\ ClassOf(i) = 2 <=> (fsi_band[i] > LOW_MAX /\ fsi_band[i] <= MEDIUM_MAX)
              /\ ClassOf(i) = 3 <=> fsi_band[i] > MEDIUM_MAX
        /\ \A i, j \in DOMAIN fsi_band :
              fsi_band[i] <= fsi_band[j] => ClassOf(i) <= ClassOf(j)
        /\ risk_stats.low_risk.pixels = Cardinality(CellsInClass(1))
        /\ risk_stats.medium_risk.pixels = Cardinality(CellsInClass(2))
        /\ risk_stats.high_risk.pixels = Cardinality(CellsInClass(3))

\* a raster with a cell on each threshold and a cell above the upper one
C17_Witness ==
    /\ Classified
    /\ \E i, j, k \in DOMAIN fsi_band :
          /\ fsi_band[i] = LOW_MAX /\ ClassOf(i) = 1
          /\ fsi_band[j] = MEDIUM_MAX /\ ClassOf(j) = 2
          /\ fsi_band[k] = MEDIUM_MAX + 1 /\ ClassOf(k) = 3

\* the raster multiplied by c; the FSI unit may shrink by any factor as well,
\* so c stands for any positive rational
Scaled(band, c) == [i \in DOMAIN band |-> c * band[i]]

MaxScale == 3

\* C25: under the adaptive policy a cell is Medium or High exactly when its
\* FSI exceeds 0.4 x, 0.7 x the raster's maximum FSI; the classes are
\* unchanged when the whole raster is multiplied by a positive constant; and
\* when the maximum FSI is > 0 every cell attaining it is High.
C25_AdaptiveClassesAreScaleFree ==
    risk_adaptive # NoResult =>
        /\ \A i \in DOMAIN fsi_band :
              /\ risk_adaptive.risk_class[i] >= 2 <=> 10 * fsi_band[i] > 4 * MaxSeq(fsi_band)
              /\ risk_adaptive.risk_class[i] = 3 <=> 10 * fsi_band[i] > 7 * MaxSeq(fsi_band)
              /\ (fsi_band[i] = MaxSeq(fsi_band) /\ fsi_band[i] > 0) =>
                    risk_adaptive.risk_class[i] = 3
        /\ \A c \in 1..MaxScale :
              classify_risk_adaptive(Scaled(fsi_band, c)) = risk_adaptive

\* a raster with a cell on each adaptive threshold whose classes differ from
\* the fixed-threshold ones
C25_Witness ==
    /\ risk_adaptive # NoResult
    /\ risk_classified # NoResult
    /\ risk_adaptive # risk_classified
    /\ \E i, j \in DOMAIN fsi_band :
          /\ 10 * fsi_band[i] = 4 * MaxSeq(fsi_band) /\ fsi_band[i] > 0
          /\ 10 * fsi_band[j] = 7 * MaxSeq(fsi_band)

(***************************************************************************)
(* Claims about risk sampling, labelling and penalization as functions     *)
(***************************************************************************)
AllKeys == DOMAIN sample_G.edges

\* what the single in-process pass attaches
SequentialSampling == attach(sample_G, _sample_chunk(sample_tif, sample_G, AllKeys))

MergedKeys == UNION {chunks[c] : c \in {d \in DOMAIN futures : futures[d] = "merged"}}

\* C21: on the parallel path of sample_risk_on_edges, for any worker count
\* and any completion order: the chunks are pairwise disjoint and cover
\* every edge exactly once; until the caller attaches the merged results no
\* edge of the graph has been written, and the merged results hold exactly
\* the keys of the merged chunks; the flood_risk finally attached to every
\* edge is the one the sequential single pass attaches.
C21_ParallelSamplingEqualsSequential ==
    /\ sample_pc = "parallel" =>
          /\ \A c, d \in DOMAIN chunks : c # d => chunks[c] \cap chunks[d] = {}
          /\ UNION {chunks[c] : c \in DOMAIN chunks} = AllKeys
          /\ \A i \in AllKeys : ~sample_G.edges[i].sampled
          /\ DOMAIN all_results = MergedKeys
          /\ all_results = _sample_chunk(sample_tif, sample_G, MergedKeys)
    /\ (sample_pc = "sampled" /\ chunks # <<>>) =>
          /\ \A i \in AllKeys : sample_G.edges[i].sampled
          /\ sample_G = SequentialSampling

\* the parallel path has finished with three chunks, the last one shorter,
\* and edges of different risk
C21_Witness ==
    /\ sample_pc = "sampled"
    /\ Len(chunks) = 3
    /\ Cardinality(chunks[3]) < Cardinality(chunks[1])
    /\ \E i, j \in AllKeys : sample_G.edges[i].flood_risk # sample_G.edges[j].flood_risk

\* the point (x, y), in 1 / unit of a pixel, lies within the raster's bounds
InRaster(x, y, unit) ==
    /\ 0 <= x /\ x < unit * sample_tif.shape[2]
    /\ 0 <= y /\ y < unit * sample_tif.shape[1]

\* the value of the cell that contains the point
ContainingCellValue(x, y, unit) ==
    sample_tif.band[(y \div unit) * sample_tif.shape[2] + (x \div unit) + 1]

SmallGraphSampled ==
    /\ sample_pc = "sampled"
    /\ chunks = <<>>

\* C22: risk sampling attaches to every edge whose midpoint lies within the
\* raster's bounds the value of the raster cell containing the midpoint, so
\* the default 0.0 is attached only when the midpoint is outside the bounds.
C22_MidpointGetsContainingCell ==
    SmallGraphSampled =>
        \A i \in AllKeys :
            InRaster(midpoint(sample_G, i)[1], midpoint(sample_G, i)[2], 8) =>
                sample_G.edges[i].flood_risk =
                    ContainingCellValue(midpoint(sample_G, i)[1], midpoint(sample_G, i)[2], 8)

\* the part of C22 that holds: a midpoint more than half a pixel outside the
\* raster gets the default 0.0
MidpointFarOutsideGetsDefault ==
    SmallGraphSampled =>
        \A i \in AllKeys :
            (\/ midpoint(sample_G, i)[1] < 0 - 4
             \/ midpoint(sample_G, i)[1] > 8 * sample_tif.shape[2] + 4
             \/ midpoint(sample_G, i)[2] < 0 - 4
             \/ midpoint(sample_G, i)[2] > 8 * sample_tif.shape[1] + 4) =>
                sample_G.edges[i].flood_risk = 0

\* the part of C23 that holds: after label_safe_nodes every node carries an
\* fsi value, and is_safe is true exactly when fsi < safe_threshold, strictly
LabelIsStrictThreshold ==
    sample_pc = "labelled" =>
        \A n \in DOMAIN sample_G.nodes :
            /\ sample_G.nodes[n].labelled
            /\ sample_G.nodes[n].is_safe <=>
                  (/\ sample_G.nodes[n].fsi # float_nan
                   /\ sample_G.nodes[n].fsi < label_threshold)

\* C23: after label_safe_nodes every node carries an fsi value and is_safe
\* is true exactly when that fsi < safe_threshold; a node outside the raster
\* has fsi 0.0 and so is safe for any positive threshold.
C23_LabelledByThresholdOutsideIsSafe ==
    sample_pc = "labelled" =>
        /\ LabelIsStrictThreshold
        /\ \A n \in DOMAIN sample_G.nodes :
              ~InRaster(sample_G.nodes[n].x, sample_G.nodes[n].y, 4) =>
                  /\ sample_G.nodes[n].fsi = 0
                  /\ label_threshold > 0 => sample_G.nodes[n].is_safe

\* the edge has no flood_risk attribute, or a flood_risk that is NaN or 0
NoRisk(e) == ~e.sampled \/ e.flood_risk = float_nan \/ e.flood_risk = 0

\* C30: penalize_flooded_edges keeps, with its length unchanged, every edge
\* whose flood_risk is NaN, is missing or is exactly 0, and never changes
\* the node set.
C30_NoDataRiskIsNoRisk ==
    [][(sample_pc # "penalized" /\ sample_pc' = "penalized") =>
          /\ sample_G'.nodes = sample_G.nodes
          /\ \A i \in DOMAIN sample_G.edges :
                NoRisk(sample_G.edges[i]) =>
                    \E j \in DOMAIN sample_G'.edges : sample_G'.edges[j] = sample_G.edges[i]
       ]_vars

\* a penalized graph that kept an edge of NaN risk next to an edge whose
\* length was scaled
C30_Witness ==
    /\ sample_pc = "penalized"
    /\ \E i, j \in DOMAIN sample_G.edges :
          /\ sample_G.edges[i].sampled /\ sample_G.edges[i].flood_risk = float_nan
          /\ sample_G.edges[i].length = 10
          /\ sample_G.edges[j].length > 10

\* a penalized graph whose edges never had a flood_risk attribute
UnsampledEdgesKept ==
    /\ sample_pc = "penalized"
    /\ Len(sample_G.edges) = 3
    /\ \A i \in DOMAIN sample_G.edges : ~sample_G.edges[i].sampled

(***************************************************************************)
(* Claims about the A* loop                                                *)
(***************************************************************************)
Popped == heappop(open_set)[3]

\* C24: in the A* loop every iteration pops one queue entry; an entry whose
\* node is already finalized is dropped and changes nothing else; any other
\* popped node is finalized then, so no node is expanded twice; and on every
\* graph, with cycles, parallel edges and zero-length edges, the search
\* terminates.
C24_EachNodeFinalizedOnceAndTerminates ==
    /\ [][(road_pc = "astar" /\ open_set # {}) =>
             /\ heappop(open_set) \notin open_set'
             /\ Popped \in visited =>
                   /\ open_set' = open_set \ {heappop(open_set)}
                   /\ UNCHANGED <<g_scores, came_from, visited, route, road_pc>>
             /\ Popped \notin visited =>
                   /\ visited' = visited \cup {Popped}
                   /\ \A n \in visited : n \in DOMAIN g_scores
                   /\ \A n \in visited \cap DOMAIN came_from : came_from'[n] = came_from[n]
                   /\ \A n \in visited : g_scores'[n] = g_scores[n]
         ]_vars
    /\ (road_pc = "astar") ~> (road_pc = "done")

\* a stale entry is on top of the queue: its node was finalized through a
\* shorter parallel edge; the graph holds a zero-length cycle
C24_Witness ==
    /\ road_pc = "astar"
    /\ open_set # {}
    /\ Popped \in visited
    /\ heappop(open_set)[2] > g_scores[Popped]
    /\ \E i, j \in DOMAIN graphs[1].edges :
          /\ graphs[1].edges[i].u = graphs[1].edges[j].v
          /\ graphs[1].edges[i].v = graphs[1].edges[j].u
          /\ graphs[1].edges[i].length = 0 /\ graphs[1].edges[j].length = 0

(***************************************************************************)
(* Claims about load_road_network                                          *)
(***************************************************************************)
\* C27: a load_road_network call that misses the cache makes at most 3
\* fetch attempts; the first successful attempt ends the attempts and its
\* graph is what the call returns; the failure is re-raised to the caller
\* only by the third failed attempt.
C27_AtMostThreeAttemptsFirstSuccessReturned ==
    [][\A t \in Callers :
          /\ load_call[t].attempt <= max_retries
          /\ (load_call'[t].pc = "fetch" /\ load_call'[t] # load_call[t]) =>
                /\ load_call[t].pc \in {"check", "fetch"}
                /\ load_call'[t].attempt = load_call[t].attempt + 1
          /\ (load_call[t].pc = "fetch" /\ fetched' # fetched /\ load_call'[t] # load_call[t]) =>
                /\ load_call'[t].pc = "store_graph"
                /\ load_call'[t].G = Len(fetched')
          /\ (load_ret'[t].kind = "fetched" /\ load_ret[t].kind # "fetched") =>
                /\ load_ret'[t].G = load_call[t].G
                /\ fetched[load_call[t].G] = load_call[t].key
          /\ (load_ret'[t].kind = "raised" /\ load_ret[t].kind # "raised") =>
                /\ load_call[t].pc = "fetch"
                /\ load_call[t].attempt = max_retries
      ]_vars

\* one call has raised after its third failure, another has returned the
\* graph of its third attempt
C27_Witness ==
    \E t, u \in Callers :
        /\ load_ret[t].kind = "raised"
        /\ load_call[t].attempt = max_retries
        /\ load_ret[u].kind = "fetched"
        /\ load_call[u].attempt = max_retries

\* the cached key and the cached graph come from the same successful fetch
Coherent ==
    \/ _cached_graph = 0 /\ _cached_key = NoKey
    \/ _cached_graph # 0 /\ fetched[_cached_graph] = _cached_key

NoCallInProgress == \A t \in Callers : load_call[t].pc = "idle"

\* a call that returned the cached graph got a graph fetched for its own key
HitsReturnOwnArea ==
    \A t \in Callers :
        load_ret[t].kind = "cached" =>
            /\ load_ret[t].G # 0
            /\ fetched[load_ret[t].G] = load_call[t].key

\* C26: whenever no load_road_network call is in progress, after any calls
\* (hits, misses, forced reloads, failed fetches), the cached key and the
\* cached graph come from the same successful fetch, and every call that
\* returned the cached graph without fetching had the key of that graph.
C26_CacheCoherent ==
    /\ NoCallInProgress => Coherent
    /\ HitsReturnOwnArea

\* C26 for calls that never overlap (only one thread calls): the cache is
\* coherent at every step, a call is served from the cache exactly when
\* force is false and its key is the cached key, and a call that raises
\* leaves the cache as it was.
CacheCoherentWithoutOverlap ==
    [][load_call["t2"] = idle_call =>
          /\ load_call["t1"].pc # "store_key" => Coherent
          /\ HitsReturnOwnArea
          /\ (load_call["t1"].pc = "check" /\ load_call'["t1"].pc # "check") =>
                (load_call'["t1"].pc = "hit" <=>
                    (~load_call["t1"].force /\ load_call["t1"].key = _cached_key))
          /\ load_call["t1"].pc \in {"check", "hit", "fetch"} =>
                (_cached_key' = _cached_key /\ _cached_graph' = _cached_graph)
      ]_vars

(***************************************************************************)
(* Claims about concurrent analysis jobs                                   *)
(***************************************************************************)
\* job j has sampled risk onto its road graph and still uses that graph
UsesSampledGraph(j) == run_pc[j] = "penalize_flooded_edges"

\* C28: while two jobs run interleaved, the risk sampling, the node
\* labelling and the risk statistics of each job read the raster that job
\* produced, and the graph a job has sampled its risk onto is not written
\* by the other job before the first has taken its copy.
C28_JobsDoNotInterfere ==
    \A j \in JobIds :
        /\ \A step \in DOMAIN run_locals[j].reads :
              run_locals[j].reads[step] \in {None, j}
        /\ UsesSampledGraph(j) => graph_objects[run_locals[j].road_graph].flood_risk = j

\* a job that runs alone reads its own raster and keeps its graph
JobAloneIsUndisturbed ==
    \A j, k \in JobIds :
        (j # k /\ run_pc[k] = "idle") =>
            /\ \A step \in DOMAIN run_locals[j].reads :
                  run_locals[j].reads[step] \in {None, j}
            /\ UsesSampledGraph(j) => graph_objects[run_locals[j].road_graph].flood_risk = j


(***************************************************************************)
(* Claims about the job store of app.py                                    *)
(***************************************************************************)
\* a job dictionary whose status agrees with its result and error
Settled(job) ==
    /\ job.status = "done" => (job.result # no_result /\ job.error = None)
    /\ job.status = "error" => (job.error # None /\ job.result = no_result)

\* the status of a job is created "running" and changes at most once, to
\* "done" or "error"
StatusChangesOnce ==
    [][\A j \in DOMAIN jobs' :
          IF j \in DOMAIN jobs
          THEN jobs'[j].status # jobs[j].status =>
                  (jobs[j].status = "running" /\ jobs'[j].status \in {"done", "error"})
          ELSE jobs'[j].status = "running"]_vars

\* C29: every job is created "running" and changes status at most once, to
\* "done" or to "error"; and in every state of the job store a "done" job has
\* a result and no error, an "error" job has an error message and no result
C29_JobLifecycle ==
    StatusChangesOnce /\ [](\A j \in DOMAIN jobs : Settled(jobs[j]))

\* the part of C29 that holds: the status history, and the store whenever
\* jobs_lock is free
JobLifecycleUnderLock ==
    StatusChangesOnce /\ [](lock_holders = {} => \A j \in DOMAIN jobs : Settled(jobs[j]))

\* what a client of GET /api/status would need: every response body is settled
StatusResponsesSettled ==
    status_response # NoResult => Settled(status_response)

====
